---- MODULE Spec2Model ----
(***************************************************************************)
(* Model of the catetin backend's record store: the GORM-backed            *)
(* repositories (users, money_flows, user_auths), the context-carried      *)
(* transaction manager and AuthService.Register, on top of a PostgreSQL    *)
(* engine running READ COMMITTED with row locks and unique indexes.        *)
(***************************************************************************)
EXTENDS Integers, Sequences, FiniteSets, TLC

\* ---------------------------------------------------------------- bounds
MaxRows == 2
MaxVersion == 2
NumCallers == 2
MaxTx == 2
MaxDepth == 2
MaxPhoneChanges == 1
MaxTime == 1
MaxLinkUpdates == 2

\* ---------------------------------------------------------------- domains
NULL == "NULL"
NullTime == -1
NoValue == [type |-> "nil", h |-> 0]
NoRow == [absent |-> TRUE]
Untouched == [untouched |-> TRUE]
Ambient == 0
Nil == "nil"

UserIds == 1..MaxRows
FlowIds == 1..MaxRows
AuthIds == 1..MaxRows
TxIds == 1..MaxTx
Callers == 1..NumCallers
Versions == 0..MaxVersion
Names == {"Ann"}
Phones == {"+111", "+222"}
Amounts == {10, 20}
Categories == {NULL, "food"}
Passwords == {"pw1", "pw2"}
Tables == {"users", "flows", "auths"}

\* the single pre-seeded "email-password" provider row (auth_service.go:15)
EmailPasswordProvider == 1

\* errors a repository call can return
ErrNotFound == "ErrNotFound"
ErrConflict == "ErrConflict"
ErrDuplicatePhoneNumber == "ErrDuplicatePhoneNumber"
PgUniqueViolation == "pg: unique_violation"
PgForeignKeyViolation == "pg: foreign_key_violation"
PgFault == "pg: connection error"
ErrTxDone == "sql: transaction has already been committed or rolled back"
ErrNoActiveTransaction == "no active transaction"
StorageErrors == {PgUniqueViolation, PgForeignKeyViolation, PgFault, ErrTxDone}

\* what the function passed to WithTransaction ends with
ErrFn == "fn: error"
Panic == "panic"
FnResults == {Nil, ErrFn, Panic}

\* errors AuthService.Register returns (pkg/errors)
ErrEmailAlreadyExists == "409: EMAIL_ALREADY_EXISTS"
ErrCheckEmailFailed == "500: Failed to check existing email"
ErrCreateUserFailed == "500: Failed to create user"
ErrCreateUserAuthFailed == "500: Failed to create user auth"
ErrGenerateTokenFailed == "500: Failed to generate access token"

\* errors AuthService.Login returns
ErrInvalidCredentials == "401: INVALID_CREDENTIALS"
ErrFindUserAuthFailed == "500: Failed to find user auth"
ErrFindUserFailed == "500: Failed to find user"

VARIABLES
    db,        \* committed tables: db[tb][id] is a row or NoRow
    txs,       \* txs[t]: status and private write set of transaction t
    ctx,       \* ctx[c]: value stored under TxKey in caller c's context
    stack,     \* stack[c]: open WithTransaction frames of caller c
    last,      \* the most recent repository call and its outcome
    nUpdates,  \* history: number of successful Updates per row
    created0,  \* history: rows inserted with version 0
    deleted,   \* history: rows on which Delete has succeeded
    reg,       \* reg[c]: AuthService.Register or Login activation of caller c
    now,       \* wall clock (time.Now / NOW())
    schema,    \* which schema definition built the tables
    done,      \* done[c]: the request context of caller c has been cancelled
    errValidation, \* the AppError the package variable ErrValidation points to
    aborted    \* aborted[c]: the bind error caller c's request was aborted with

vars == <<db, txs, ctx, stack, last, nUpdates, created0,
          deleted, reg, now, schema, done, errValidation, aborted>>

Ids(tb) == IF tb = "users" THEN UserIds ELSE IF tb = "flows" THEN FlowIds ELSE AuthIds

EmptyTable(tb) == [i \in Ids(tb) |-> NoRow]
EmptyWrites == [tb \in Tables |-> [i \in Ids(tb) |-> Untouched]]

\* ---------------------------------------------------------------- context
\* repository.SetTransactionInContext: context.WithValue(ctx, TxKey, tx)
SetTransactionInContext(tx) == [type |-> "DB", h |-> tx]

\* repository.GetTransactionFromContext: ctx.Value(TxKey)
GetTransactionFromContext(cx) == cx

IsInTransactionNever(cx) == FALSE

\* transactionManager.IsInTransaction
IsInTransaction(cx) == GetTransactionFromContext(cx) # NoValue

GetDBAlwaysAmbient(cx) == Ambient

\* postgresql.GetDB: the transaction handle when the context carries one of
\* the expected type, else the ambient connection
GetDB(cx) ==
    LET tx == GetTransactionFromContext(cx)
    IN IF tx # NoValue /\ tx.type = "DB" THEN tx.h ELSE Ambient

\* ---------------------------------------------------------------- engine
OpenTx(t) == txs[t].status = "open"

\* what a statement run on handle h sees: committed rows overlaid with the
\* handle's own uncommitted writes
View(h, tb) ==
    IF h = Ambient THEN db[tb]
    ELSE [i \in Ids(tb) |->
            IF txs[h].w[tb][i] = Untouched THEN db[tb][i] ELSE txs[h].w[tb][i]]

\* a handle whose transaction has ended refuses every statement
HandleDone(h) == h # Ambient /\ ~OpenTx(h)

\* row lock: another open transaction has an uncommitted write on the row
LockedByOther(h, tb, i) ==
    \E t \in TxIds : t # h /\ OpenTx(t) /\ txs[t].w[tb][i] # Untouched

\* the write of one row through handle h
WriteRow(h, tb, i, row) ==
    IF h = Ambient
    THEN /\ db' = [db EXCEPT ![tb][i] = row]
         /\ txs' = txs
    ELSE /\ txs' = [txs EXCEPT ![h].w[tb][i] = row]
         /\ db' = db

\* rows stored or pending in the given tables
RowCount(T) ==
    Cardinality({<<tb, i>> \in T \X (1..MaxRows) :
        \/ db[tb][i] # NoRow
        \/ \E t \in TxIds : OpenTx(t) /\ txs[t].w[tb][i] # Untouched})

\* uuid.New(): an id no row carries
FreshId(tb) ==
    CHOOSE i \in Ids(tb) :
        /\ db[tb][i] = NoRow
        /\ \A t \in TxIds : OpenTx(t) => txs[t].w[tb][i] = Untouched
        /\ \A j \in Ids(tb) :
              (j < i) => (db[tb][j] # NoRow \/ \E t \in TxIds : OpenTx(t) /\ txs[t].w[tb][j] # Untouched)

\* room left: users and money_flows together hold MaxRows rows, user_auths
\* holds MaxRows rows
CanInsert(tb) ==
    IF tb = "auths" THEN RowCount({"auths"}) < MaxRows
    ELSE RowCount({"users", "flows"}) < MaxRows

SoftDeleteScopeOff(row) == TRUE

\* gorm.DeletedAt: every query, update and delete on the model carries
\* "deleted_at IS NULL"
SoftDeleteScope(row) == row.deleted_at = NullTime

\* membership of a row in a unique index: the migration's indexes are
\* partial (WHERE deleted_at IS NULL), the model tags' index is not
InUniqueIndex(row) ==
    row # NoRow /\ (schema = "automigrate" \/ row.deleted_at = NullTime)


HasUniqueKey(tb) == tb = "users" \/ (tb = "auths" /\ schema = "migration")

\* the indexed columns: idx_users_phone_number_unique (phone_number) and
\* idx_user_auths_user_provider (user_id, auth_provider_id)
KeyOf(tb, row) ==
    IF tb = "users" THEN <<row.phone_number>>
    ELSE <<row.user_id, row.auth_provider_id>>

KeyClashOff(h, tb, i, row) == FALSE

\* unique violation: another row visible to the handle holds the same entry
KeyClash(h, tb, i, row) ==
    /\ HasUniqueKey(tb)
    /\ InUniqueIndex(row)
    /\ \E j \in Ids(tb) \ {i} :
          LET r == View(h, tb)[j]
          IN InUniqueIndex(r) /\ KeyOf(tb, r) = KeyOf(tb, row)

\* an equal entry was written or superseded by another open transaction:
\* the statement waits for that transaction to end
KeyWait(h, tb, i, row) ==
    /\ HasUniqueKey(tb)
    /\ InUniqueIndex(row)
    /\ \E t \in TxIds : \E j \in Ids(tb) \ {i} :
          /\ t # h
          /\ OpenTx(t)
          /\ txs[t].w[tb][j] # Untouched
          /\ \/ InUniqueIndex(db[tb][j]) /\ KeyOf(tb, db[tb][j]) = KeyOf(tb, row)
             \/ InUniqueIndex(txs[t].w[tb][j]) /\ KeyOf(tb, txs[t].w[tb][j]) = KeyOf(tb, row)

\* gorm.Config in NewConnection sets no TranslateError, so a unique
\* violation reaches the repository as the driver's own error value
TranslateError == FALSE

\* ---------------------------------------------------------------- security
\* PasswordHasher.Hash: the bcrypt hash of the password
Hash(password) == <<"$2a$", password>>

\* PasswordHasher.IsValidPassword: bcrypt.CompareHashAndPassword succeeds
\* exactly for the password the hash was made of
IsValidPassword(hashedPassword, plainPassword) == hashedPassword = Hash(plainPassword)

\* the credential secrets callers store directly
Secrets == {Hash("pw1")}

\* ---------------------------------------------------------------- domain
\* domain.NewUser
NewUser(id, fullName, phoneNumber) ==
    [id |-> id, full_name |-> fullName, phone_number |-> phoneNumber,
     image |-> NULL, version |-> 0, created_at |-> now, updated_at |-> now,
     deleted_at |-> NullTime]

\* User.IncrementVersion / MoneyFlow.IncrementVersion
IncrementVersion(e) == [e EXCEPT !.version = @ + 1, !.updated_at = now]

\* domain.NewMoneyFlow (amount > 0, currency defaulted to IDR)
NewMoneyFlow(id, userID, amount) ==
    [id |-> id, user_id |-> userID, category |-> NULL, amount |-> amount,
     currency |-> "IDR", description |-> NULL, tags |-> <<>>, version |-> 0,
     created_at |-> now, updated_at |-> now, deleted_at |-> NullTime]

\* the row a domain entity is converted to (domainToModel followed by the
\* INSERT): every field is carried over as it is
UserModel(user) ==
    [full_name |-> user.full_name, phone_number |-> user.phone_number,
     image |-> user.image, version |-> user.version,
     created_at |-> user.created_at, updated_at |-> user.updated_at,
     deleted_at |-> user.deleted_at]

MoneyFlowModel(mf) ==
    [user_id |-> mf.user_id, category |-> mf.category, amount |-> mf.amount,
     currency |-> mf.currency, description |-> mf.description,
     tags |-> mf.tags, version |-> mf.version, created_at |-> mf.created_at,
     updated_at |-> mf.updated_at, deleted_at |-> mf.deleted_at]

\* ---------------------------------------------------------------- history
NoCall == [caller |-> 0, op |-> "none", tb |-> "none", id |-> 0,
           ver |-> 0, err |-> Nil, rows |-> <<>>, h |-> Ambient, fn |-> Nil,
           vals |-> <<>>]

\* records the call that has just returned; vals are the column values the
\* call was given to write
ReturnOf(c, op, tb, id, ver, err, rows, h, vals) ==
    last' = [caller |-> c, op |-> op, tb |-> tb,
             id |-> id, ver |-> ver, err |-> err, rows |-> rows, h |-> h,
             fn |-> Nil, vals |-> vals]

Return(c, op, tb, id, ver, err, rows, h) ==
    ReturnOf(c, op, tb, id, ver, err, rows, h, <<>>)

hvars == <<nUpdates, created0, deleted>>
cvars == <<ctx, stack, reg>>
evars == <<now, schema, done, errValidation, aborted>>

\* the history variables follow the committed store: they record the calls
\* made on the ambient connection
OnAmbient(h, new, old) == IF h = Ambient THEN new ELSE old

\* a call is issued once the previous call's result has been handed back
Free(c) == last.op = "none"

\* a stored row that is not soft-deleted
Active(row) == row # NoRow /\ row.deleted_at = NullTime

\* the callers that are not inside AuthService.Register
Direct == {c \in Callers : reg[c].pc = "idle"}


\* a call that fails or reads: nothing stored changes
NoChange(c, op, tb, id, ver, err, rows, h) ==
    /\ Return(c, op, tb, id, ver, err, rows, h)
    /\ UNCHANGED <<db, txs, hvars>>

\* a call that fails, given the column values vals to write
NoChangeOf(c, op, tb, id, ver, err, rows, h, vals) ==
    /\ ReturnOf(c, op, tb, id, ver, err, rows, h, vals)
    /\ UNCHANGED <<db, txs, hvars>>

\* sequences listing every element of S once
Perms(S) ==
    {s \in [1..Cardinality(S) -> S] : \A a, b \in 1..Cardinality(S) : a # b => s[a] # s[b]}

\* ORDER BY created_at DESC: rows of equal created_at come in any order
OrderByCreatedAtDesc(S, rows) ==
    {s \in Perms(S) : \A a, b \in 1..Cardinality(S) :
        a < b => rows[s[a]].created_at >= rows[s[b]].created_at}

\* LIMIT limit OFFSET offset
LimitOffset(s, limit, offset) ==
    SubSeq(s, offset + 1, IF offset + limit < Len(s) THEN offset + limit ELSE Len(s))

Min(S) == CHOOSE x \in S : \A y \in S : x <= y

\* --------------------------------------------------- userRepositoryImpl
UpdateWhereIdOnly(i, row, e) == i = e.id

\* WHERE id = ? AND version = ?  with  (entity.ID, entity.Version - 1)
UpdateWhere(i, row, e) == i = e.id /\ row.version = e.version - 1

UserUpdatesKeepVersion(row, user) ==
    [row EXCEPT !.full_name = user.full_name,
                !.phone_number = user.phone_number,
                !.image = user.image,
                !.updated_at = user.updated_at]

\* the column map of userRepositoryImpl.Update
UserUpdates(row, user) ==
    [row EXCEPT !.full_name = user.full_name,
                !.phone_number = user.phone_number,
                !.image = user.image,
                !.version = user.version,
                !.updated_at = user.updated_at]

\* userRepositoryImpl.Create
UserCreate(c, user) ==
    LET h == GetDB(ctx[c])
        i == user.id
        row == UserModel(user)
        vals == <<user.full_name, user.phone_number, user.image>>
    IN /\ Free(c)
       /\ CanInsert("users")
       /\ IF HandleDone(h)
          THEN NoChangeOf(c, "Create", "users", i, user.version, ErrTxDone, <<>>, h, vals)
          ELSE /\ ~KeyWait(h, "users", i, row)
               /\ IF KeyClash(h, "users", i, row)
                  THEN NoChangeOf(c, "Create", "users", i, user.version,
                                  IF TranslateError THEN ErrDuplicatePhoneNumber
                                                    ELSE PgUniqueViolation, <<>>, h, vals)
                  ELSE /\ WriteRow(h, "users", i, row)
                       /\ ReturnOf(c, "Create", "users", i, user.version, Nil, <<i>>, h, vals)
                       /\ created0' = IF row.version = 0 /\ h = Ambient
                                      THEN created0 \cup {<<"users", i>>} ELSE created0
                       /\ UNCHANGED <<nUpdates, deleted>>
       /\ UNCHANGED <<cvars, evars>>

\* userRepositoryImpl.FindByID
UserFindByID(c, id) ==
    LET h == GetDB(ctx[c])
        rows == View(h, "users")
        hit == {i \in UserIds : rows[i] # NoRow /\ i = id /\ SoftDeleteScope(rows[i])}
    IN /\ Free(c)
       /\ IF HandleDone(h)
          THEN NoChange(c, "FindByID", "users", id, 0, ErrTxDone, <<>>, h)
          ELSE IF hit = {}
          THEN NoChange(c, "FindByID", "users", id, 0, ErrNotFound, <<>>, h)
          ELSE NoChange(c, "FindByID", "users", id, rows[id].version, Nil, <<id>>, h)
       /\ UNCHANGED <<cvars, evars>>

\* userRepositoryImpl.FindByPhoneNumber (First: lowest primary key)
UserFindByPhoneNumber(c, phoneNumber) ==
    LET h == GetDB(ctx[c])
        rows == View(h, "users")
        hit == {i \in UserIds : rows[i] # NoRow /\ rows[i].phone_number = phoneNumber
                                /\ SoftDeleteScope(rows[i])}
    IN /\ Free(c)
       /\ IF HandleDone(h)
          THEN NoChange(c, "FindByPhoneNumber", "users", 0, 0, ErrTxDone, <<>>, h)
          ELSE IF hit = {}
          THEN NoChange(c, "FindByPhoneNumber", "users", 0, 0, ErrNotFound, <<>>, h)
          ELSE NoChange(c, "FindByPhoneNumber", "users", Min(hit), rows[Min(hit)].version,
                        Nil, <<Min(hit)>>, h)
       /\ UNCHANGED <<cvars, evars>>

\* userRepositoryImpl.Update
UserUpdate(c, user) ==
    LET h == GetDB(ctx[c])
        rows == View(h, "users")
        hit == {i \in UserIds : rows[i] # NoRow /\ UpdateWhere(i, rows[i], user)
                                /\ SoftDeleteScope(rows[i])}
    IN /\ Free(c)
       /\ IF HandleDone(h)
          THEN NoChange(c, "Update", "users", user.id, user.version, ErrTxDone, <<>>, h)
          ELSE IF hit = {}
          THEN NoChange(c, "Update", "users", user.id, user.version, ErrConflict, <<>>, h)
          ELSE LET i == Min(hit)
                   new == UserUpdates(rows[i], user)
               IN /\ ~LockedByOther(h, "users", i)
                  /\ ~KeyWait(h, "users", i, new)
                  /\ IF KeyClash(h, "users", i, new)
                     THEN NoChange(c, "Update", "users", user.id, user.version,
                                   PgUniqueViolation, <<>>, h)
                     ELSE /\ WriteRow(h, "users", i, new)
                          /\ ReturnOf(c, "Update", "users", user.id, user.version, Nil, <<i>>, h,
                                      <<user.full_name, user.phone_number, user.image>>)
                          /\ nUpdates' = OnAmbient(h, [nUpdates EXCEPT !["users"][i] = @ + 1], nUpdates)
                          /\ UNCHANGED <<created0, deleted>>
       /\ UNCHANGED <<cvars, evars>>

DeleteWhereVersionZero(i, row, id) == i = id /\ row.version = 0

\* db.Delete(&Model{}, "id = ?", id): the condition names the id only
DeleteWhere(i, row, id) == i = id

SoftDeleteNothing(row) == row

SoftDeleteHard(row) == NoRow

\* gorm's soft delete of a model with a DeletedAt column: Delete issues
\* UPDATE ... SET deleted_at = <now> and touches no other column
SoftDelete(row) == [row EXCEPT !.deleted_at = now]

\* userRepositoryImpl.Delete (soft delete: UPDATE ... SET deleted_at = now)
UserDelete(c, id) ==
    LET h == GetDB(ctx[c])
        rows == View(h, "users")
        hit == {i \in UserIds : rows[i] # NoRow /\ DeleteWhere(i, rows[i], id)
                                /\ SoftDeleteScope(rows[i])}
    IN /\ Free(c)
       /\ IF HandleDone(h)
          THEN NoChange(c, "Delete", "users", id, 0, ErrTxDone, <<>>, h)
          ELSE IF hit = {}
          THEN NoChange(c, "Delete", "users", id, 0, ErrNotFound, <<>>, h)
          ELSE /\ ~LockedByOther(h, "users", id)
               /\ WriteRow(h, "users", id, SoftDelete(rows[id]))
               /\ Return(c, "Delete", "users", id, rows[id].version, Nil, <<id>>, h)
               /\ deleted' = OnAmbient(h, deleted \cup {<<"users", id>>}, deleted)
               /\ UNCHANGED <<nUpdates, created0>>
       /\ UNCHANGED <<cvars, evars>>

\* userRepositoryImpl.List
UserList(c, limit, offset) ==
    LET h == GetDB(ctx[c])
        rows == View(h, "users")
        hit == {i \in UserIds : rows[i] # NoRow /\ SoftDeleteScope(rows[i])}
    IN /\ Free(c)
       /\ IF HandleDone(h)
          THEN NoChange(c, "List", "users", 0, 0, ErrTxDone, <<>>, h)
          ELSE \E s \in OrderByCreatedAtDesc(hit, rows) :
                  NoChange(c, "List", "users", 0, 0, Nil, LimitOffset(s, limit, offset), h)
       /\ UNCHANGED <<cvars, evars>>


\* ----------------------------------------------- moneyFlowRepositoryImpl
\* fk_money_flows_user / fk_user_auths_user: the referenced users row exists
UserExists(h, userID) == userID \in UserIds /\ View(h, "users")[userID] # NoRow

MoneyFlowUpdatesSave(row, mf) ==
    [row EXCEPT !.user_id = mf.user_id,
                !.category = mf.category,
                !.amount = mf.amount,
                !.currency = mf.currency,
                !.description = mf.description,
                !.tags = mf.tags,
                !.version = mf.version,
                !.created_at = mf.created_at,
                !.updated_at = mf.updated_at,
                !.deleted_at = mf.deleted_at]

\* the column map of moneyFlowRepositoryImpl.Update
MoneyFlowUpdates(row, mf) ==
    [row EXCEPT !.category = mf.category,
                !.amount = mf.amount,
                !.currency = mf.currency,
                !.description = mf.description,
                !.tags = mf.tags,
                !.version = mf.version,
                !.updated_at = mf.updated_at]

\* moneyFlowRepositoryImpl.Create
MoneyFlowCreate(c, mf) ==
    LET h == GetDB(ctx[c])
        i == mf.id
    IN /\ Free(c)
       /\ CanInsert("flows")
       /\ IF HandleDone(h)
          THEN NoChange(c, "Create", "flows", i, mf.version, ErrTxDone, <<>>, h)
          ELSE IF ~UserExists(h, mf.user_id)
          THEN NoChange(c, "Create", "flows", i, mf.version, PgForeignKeyViolation, <<>>, h)
          ELSE /\ WriteRow(h, "flows", i, MoneyFlowModel(mf))
               /\ Return(c, "Create", "flows", i, mf.version, Nil, <<i>>, h)
               /\ created0' = IF mf.version = 0 /\ h = Ambient
                              THEN created0 \cup {<<"flows", i>>} ELSE created0
               /\ UNCHANGED <<nUpdates, deleted>>
       /\ UNCHANGED <<cvars, evars>>

\* moneyFlowRepositoryImpl.FindByID
MoneyFlowFindByID(c, id) ==
    LET h == GetDB(ctx[c])
        rows == View(h, "flows")
        hit == {i \in FlowIds : rows[i] # NoRow /\ i = id /\ SoftDeleteScope(rows[i])}
    IN /\ Free(c)
       /\ IF HandleDone(h)
          THEN NoChange(c, "FindByID", "flows", id, 0, ErrTxDone, <<>>, h)
          ELSE IF hit = {}
          THEN NoChange(c, "FindByID", "flows", id, 0, ErrNotFound, <<>>, h)
          ELSE NoChange(c, "FindByID", "flows", id, rows[id].version, Nil, <<id>>, h)
       /\ UNCHANGED <<cvars, evars>>

\* moneyFlowRepositoryImpl.FindByUserID
MoneyFlowFindByUserID(c, userID, limit, offset) ==
    LET h == GetDB(ctx[c])
        rows == View(h, "flows")
        hit == {i \in FlowIds : rows[i] # NoRow /\ rows[i].user_id = userID
                                /\ SoftDeleteScope(rows[i])}
    IN /\ Free(c)
       /\ IF HandleDone(h)
          THEN NoChange(c, "FindByUserID", "flows", 0, 0, ErrTxDone, <<>>, h)
          ELSE \E s \in OrderByCreatedAtDesc(hit, rows) :
                  NoChange(c, "FindByUserID", "flows", 0, 0, Nil,
                           LimitOffset(s, limit, offset), h)
       /\ UNCHANGED <<cvars, evars>>

\* moneyFlowRepositoryImpl.Update
MoneyFlowUpdate(c, mf) ==
    LET h == GetDB(ctx[c])
        rows == View(h, "flows")
        hit == {i \in FlowIds : rows[i] # NoRow /\ UpdateWhere(i, rows[i], mf)
                                /\ SoftDeleteScope(rows[i])}
    IN /\ Free(c)
       /\ IF HandleDone(h)
          THEN NoChange(c, "Update", "flows", mf.id, mf.version, ErrTxDone, <<>>, h)
          ELSE IF hit = {}
          THEN NoChange(c, "Update", "flows", mf.id, mf.version, ErrConflict, <<>>, h)
          ELSE LET i == Min(hit)
               IN /\ ~LockedByOther(h, "flows", i)
                  /\ WriteRow(h, "flows", i, MoneyFlowUpdates(rows[i], mf))
                  /\ ReturnOf(c, "Update", "flows", mf.id, mf.version, Nil, <<i>>, h,
                              <<mf.category, mf.amount, mf.currency, mf.description, mf.tags>>)
                  /\ nUpdates' = OnAmbient(h, [nUpdates EXCEPT !["flows"][i] = @ + 1], nUpdates)
                  /\ UNCHANGED <<created0, deleted>>
       /\ UNCHANGED <<cvars, evars>>

\* moneyFlowRepositoryImpl.Delete
MoneyFlowDelete(c, id) ==
    LET h == GetDB(ctx[c])
        rows == View(h, "flows")
        hit == {i \in FlowIds : rows[i] # NoRow /\ DeleteWhere(i, rows[i], id)
                                /\ SoftDeleteScope(rows[i])}
    IN /\ Free(c)
       /\ IF HandleDone(h)
          THEN NoChange(c, "Delete", "flows", id, 0, ErrTxDone, <<>>, h)
          ELSE IF hit = {}
          THEN NoChange(c, "Delete", "flows", id, 0, ErrNotFound, <<>>, h)
          ELSE /\ ~LockedByOther(h, "flows", id)
               /\ WriteRow(h, "flows", id, SoftDelete(rows[id]))
               /\ Return(c, "Delete", "flows", id, rows[id].version, Nil, <<id>>, h)
               /\ deleted' = OnAmbient(h, deleted \cup {<<"flows", id>>}, deleted)
               /\ UNCHANGED <<nUpdates, created0>>
       /\ UNCHANGED <<cvars, evars>>


\* ------------------------------------------------ userAuthRepositoryImpl
\* userAuthRepositoryImpl.domainToModel followed by the INSERT: version and
\* deleted_at are left to the column defaults, gorm fills in the timestamps
UserAuthModel(ua) ==
    [user_id |-> ua.user_id, auth_provider_id |-> ua.auth_provider_id,
     credential_id |-> ua.credential_id, credential_secret |-> ua.credential_secret,
     version |-> 0, created_at |-> now, updated_at |-> now, deleted_at |-> NullTime]

\* fk_user_auths_user has to wait: the users row was inserted by another
\* transaction that is still open
UserPending(h, userID) ==
    /\ userID \in UserIds
    /\ View(h, "users")[userID] = NoRow
    /\ \E t \in TxIds : t # h /\ OpenTx(t) /\ txs[t].w["users"][userID] # Untouched

\* userAuthRepositoryImpl.Create; the statement can also fail for a reason of
\* the connection's, and every error is returned as it is
UserAuthCreate(c, ua) ==
    LET h == GetDB(ctx[c])
        i == ua.id
        row == UserAuthModel(ua)
        vals == <<ua.user_id, ua.auth_provider_id, ua.credential_id>>
    IN /\ Free(c)
       /\ CanInsert("auths")
       /\ IF HandleDone(h)
          THEN NoChangeOf(c, "Create", "auths", i, 0, ErrTxDone, <<>>, h, vals)
          ELSE \/ NoChangeOf(c, "Create", "auths", i, 0, PgFault, <<>>, h, vals)
               \/ /\ ~UserPending(h, ua.user_id)
                  /\ IF ~UserExists(h, ua.user_id)
                     THEN NoChangeOf(c, "Create", "auths", i, 0, PgForeignKeyViolation, <<>>, h, vals)
                     ELSE /\ ~KeyWait(h, "auths", i, row)
                          /\ IF KeyClash(h, "auths", i, row)
                             THEN NoChangeOf(c, "Create", "auths", i, 0, PgUniqueViolation, <<>>, h, vals)
                             ELSE /\ WriteRow(h, "auths", i, row)
                                  /\ ReturnOf(c, "Create", "auths", i, 0, Nil, <<i>>, h, vals)
                                  /\ UNCHANGED hvars
       /\ UNCHANGED <<cvars, evars>>

\* time.Time{}: the UpdatedAt of a model that userAuthRepositoryImpl's
\* domainToModel built, which sets no timestamp; it precedes every clock value
ZeroTime == -2

\* the column map of userAuthRepositoryImpl.Update
UserAuthUpdates(row, ua) ==
    [row EXCEPT !.credential_id = ua.credential_id,
                !.credential_secret = ua.credential_secret,
                !.updated_at = ZeroTime]

\* userAuthRepositoryImpl.Update: WHERE id = ?, no version in the condition
\* and none in the column map; ErrNotFound when no row was affected
UserAuthUpdate(c, ua) ==
    LET h == GetDB(ctx[c])
        rows == View(h, "auths")
        hit == {i \in AuthIds : rows[i] # NoRow /\ i = ua.id /\ SoftDeleteScope(rows[i])}
        vals == <<ua.credential_id, ua.credential_secret>>
    IN /\ Free(c)
       /\ IF HandleDone(h)
          THEN NoChangeOf(c, "Update", "auths", ua.id, 0, ErrTxDone, <<>>, h, vals)
          ELSE IF hit = {}
          THEN NoChangeOf(c, "Update", "auths", ua.id, 0, ErrNotFound, <<>>, h, vals)
          ELSE /\ ~LockedByOther(h, "auths", ua.id)
               /\ WriteRow(h, "auths", ua.id, UserAuthUpdates(rows[ua.id], ua))
               /\ ReturnOf(c, "Update", "auths", ua.id, 0, Nil, <<ua.id>>, h, vals)
               /\ nUpdates' = OnAmbient(h, [nUpdates EXCEPT !["auths"][ua.id] = @ + 1], nUpdates)
               /\ UNCHANGED <<created0, deleted>>
       /\ UNCHANGED <<cvars, evars>>

\* userAuthRepositoryImpl.FindByCredentialID (First: lowest primary key)
UserAuthFindByCredentialID(c, credentialID, authProviderID) ==
    LET h == GetDB(ctx[c])
        rows == View(h, "auths")
        hit == {i \in AuthIds : /\ rows[i] # NoRow
                                /\ rows[i].credential_id = credentialID
                                /\ rows[i].auth_provider_id = authProviderID
                                /\ SoftDeleteScope(rows[i])}
    IN /\ Free(c)
       /\ IF HandleDone(h)
          THEN NoChange(c, "FindByCredentialID", "auths", 0, 0, ErrTxDone, <<>>, h)
          ELSE IF hit = {}
          THEN NoChange(c, "FindByCredentialID", "auths", 0, 0, ErrNotFound, <<>>, h)
          ELSE NoChange(c, "FindByCredentialID", "auths", Min(hit), rows[Min(hit)].version,
                        Nil, <<Min(hit)>>, h)
       /\ UNCHANGED <<cvars, evars>>

\* userAuthRepositoryImpl.Delete (soft delete)
UserAuthDelete(c, id) ==
    LET h == GetDB(ctx[c])
        rows == View(h, "auths")
        hit == {i \in AuthIds : rows[i] # NoRow /\ DeleteWhere(i, rows[i], id)
                                /\ SoftDeleteScope(rows[i])}
    IN /\ Free(c)
       /\ IF HandleDone(h)
          THEN NoChange(c, "Delete", "auths", id, 0, ErrTxDone, <<>>, h)
          ELSE IF hit = {}
          THEN NoChange(c, "Delete", "auths", id, 0, ErrNotFound, <<>>, h)
          ELSE /\ ~LockedByOther(h, "auths", id)
               /\ WriteRow(h, "auths", id, SoftDelete(rows[id]))
               /\ Return(c, "Delete", "auths", id, rows[id].version, Nil, <<id>>, h)
               /\ deleted' = OnAmbient(h, deleted \cup {<<"auths", id>>}, deleted)
               /\ UNCHANGED <<nUpdates, created0>>
       /\ UNCHANGED <<cvars, evars>>

\* ------------------------------------------------------ transactionManager
\* the handles BEGIN can return: no transaction is open on them and no
\* context carries them
FreeTx == {t \in TxIds : ~OpenTx(t) /\ \A c \in Callers : ctx[c].h # t}

\* the handle of the next BEGIN
FreshTx == Min(FreeTx)

TxOutcomeAlwaysCommit(result) == "commit"

TxOutcomeCommitOnPanic(result) == IF result = ErrFn THEN "rollback" ELSE "commit"

\* gormDB.Transaction -> (*gorm.DB).Transaction: COMMIT when fn returned nil;
\* the deferred handler issues ROLLBACK when fn returned an error or panicked
TxOutcome(result) == IF result = Nil THEN "commit" ELSE "rollback"

\* COMMIT: the write set of t becomes the committed rows
Commit(t) ==
    /\ db' = [tb \in Tables |-> View(t, tb)]
    /\ txs' = [txs EXCEPT ![t] = [status |-> "committed", w |-> EmptyWrites]]

RollbackAsCommit(t) ==
    /\ db' = [tb \in Tables |-> View(t, tb)]
    /\ txs' = [txs EXCEPT ![t] = [status |-> "rolledback", w |-> EmptyWrites]]

\* ROLLBACK: the write set of t is discarded
Rollback(t) ==
    /\ db' = db
    /\ txs' = [txs EXCEPT ![t] = [status |-> "rolledback", w |-> EmptyWrites]]

\* the user rows that handle h has written, in id order
UsersWritten(h) ==
    IF h = Ambient THEN <<>>
    ELSE LET S == {i \in UserIds : txs[h].w["users"][i] # Untouched}
         IN CHOOSE s \in Perms(S) : \A a, b \in 1..Cardinality(S) : a < b => s[a] < s[b]

\* records the WithTransaction that has just returned: what fn ended with,
\* what the caller got, and the user rows fn had written through the handle
ReturnTx(c, h, result, err) ==
    last' = [caller |-> c, op |-> "WithTransaction", tb |-> "none", id |-> 0,
             ver |-> 0, err |-> err, rows |-> UsersWritten(h), h |-> h, fn |-> result,
             vals |-> <<>>]

\* transactionManager.WithTransaction up to the call of fn: with a handle in
\* ctx it calls fn(ctx); otherwise db.Transaction begins a transaction and fn
\* gets SetTransactionInContext(ctx, tx).  BEGIN can fail, and then fn is
\* never called.
WithTransactionEnter(c) ==
    /\ Free(c)
    /\ Len(stack[c]) < MaxDepth
    /\ IF IsInTransaction(ctx[c])
       THEN /\ stack' = [stack EXCEPT ![c] = Append(@, [own |-> FALSE, outer |-> ctx[c]])]
            /\ UNCHANGED <<db, txs, ctx, last>>
       ELSE \/ /\ FreeTx # {}
               /\ txs' = [txs EXCEPT ![FreshTx] = [status |-> "open", w |-> EmptyWrites]]
               /\ ctx' = [ctx EXCEPT ![c] = SetTransactionInContext(FreshTx)]
               /\ stack' = [stack EXCEPT ![c] = Append(@, [own |-> TRUE, outer |-> ctx[c]])]
               /\ UNCHANGED <<db, last>>
            \/ /\ ReturnTx(c, Ambient, Nil, PgFault)
               /\ UNCHANGED <<db, txs, ctx, stack>>
    /\ UNCHANGED <<hvars, reg, evars>>

\* fn ends with result; WithTransaction returns.  A frame that reused the
\* caller's transaction hands fn's result on.  The frame that began the
\* transaction commits or rolls back; COMMIT can fail, and then the deferred
\* handler rolls back and the commit error is returned.  On a transaction
\* that has ended already COMMIT fails with ErrTxDone and ROLLBACK does nothing.
WithTransactionReturn(c, result) ==
    /\ Free(c)
    /\ stack[c] # <<>>
    /\ LET f == stack[c][Len(stack[c])]
           t == ctx[c].h
       IN IF ~f.own
          THEN /\ ReturnTx(c, t, result, result)
               /\ UNCHANGED <<db, txs, ctx>>
          ELSE /\ IF HandleDone(t)
                  THEN /\ ReturnTx(c, t, result, IF TxOutcome(result) = "commit"
                                                 THEN ErrTxDone ELSE result)
                       /\ UNCHANGED <<db, txs>>
                  ELSE IF TxOutcome(result) = "commit"
                  THEN \/ Commit(t) /\ ReturnTx(c, t, result, Nil)
                       \/ Rollback(t) /\ ReturnTx(c, t, result, PgFault)
                  ELSE Rollback(t) /\ ReturnTx(c, t, result, result)
               /\ ctx' = [ctx EXCEPT ![c] = f.outer]
    /\ stack' = [stack EXCEPT ![c] = SubSeq(@, 1, Len(@) - 1)]
    /\ UNCHANGED <<hvars, reg, evars>>

\* transactionManager.BeginTransaction: the caller's context when it carries a
\* transaction, else a context that carries a transaction begun now.  BEGIN
\* can fail, and then the caller has no new context.
BeginTransaction(c) ==
    /\ Free(c)
    /\ IF IsInTransaction(ctx[c])
       THEN /\ Return(c, "BeginTransaction", "none", 0, 0, Nil, <<>>, ctx[c].h)
            /\ UNCHANGED <<db, txs, ctx>>
       ELSE \/ /\ FreeTx # {}
               /\ txs' = [txs EXCEPT ![FreshTx] = [status |-> "open", w |-> EmptyWrites]]
               /\ ctx' = [ctx EXCEPT ![c] = SetTransactionInContext(FreshTx)]
               /\ Return(c, "BeginTransaction", "none", 0, 0, Nil, <<>>, FreshTx)
               /\ db' = db
            \/ /\ Return(c, "BeginTransaction", "none", 0, 0, PgFault, <<>>, Ambient)
               /\ UNCHANGED <<db, txs, ctx>>
    /\ UNCHANGED <<stack, reg, hvars, evars>>

\* transactionManager.CommitTransaction: COMMIT on the handle the context
\* carries.  The context is a value: it carries the handle afterwards too.
CommitTransaction(c) ==
    LET tx == GetTransactionFromContext(ctx[c])
    IN /\ Free(c)
       /\ IF tx = NoValue
          THEN NoChange(c, "CommitTransaction", "none", 0, 0, ErrNoActiveTransaction, <<>>, Ambient)
          ELSE IF ~OpenTx(tx.h)
          THEN NoChange(c, "CommitTransaction", "none", 0, 0, ErrTxDone, <<>>, tx.h)
          ELSE /\ \/ Commit(tx.h) /\ Return(c, "CommitTransaction", "none", 0, 0, Nil, <<>>, tx.h)
                  \/ Rollback(tx.h) /\ Return(c, "CommitTransaction", "none", 0, 0, PgFault, <<>>, tx.h)
               /\ UNCHANGED hvars
       /\ UNCHANGED <<cvars, evars>>

\* transactionManager.RollbackTransaction: ROLLBACK on the handle the context
\* carries
RollbackTransaction(c) ==
    LET tx == GetTransactionFromContext(ctx[c])
    IN /\ Free(c)
       /\ IF tx = NoValue
          THEN NoChange(c, "RollbackTransaction", "none", 0, 0, ErrNoActiveTransaction, <<>>, Ambient)
          ELSE IF ~OpenTx(tx.h)
          THEN NoChange(c, "RollbackTransaction", "none", 0, 0, ErrTxDone, <<>>, tx.h)
          ELSE /\ Rollback(tx.h)
               /\ Return(c, "RollbackTransaction", "none", 0, 0, Nil, <<>>, tx.h)
               /\ UNCHANGED hvars
       /\ UNCHANGED <<cvars, evars>>

\* the request context of caller c is cancelled while c holds an open
\* transaction.  database/sql rolls a transaction back as soon as the context
\* it was begun with is done: that is the caller's context when the
\* transaction was begun on db.WithContext(ctx) (transaction_manager.go:137
\* and :154), and the background context, which is never done, when it was
\* begun on the wrapped connection (transaction_manager.go:31 and :44).
Cancel(c) ==
    /\ Free(c)
    /\ ~done[c]
    /\ IsInTransaction(ctx[c])
    /\ OpenTx(ctx[c].h)
    /\ done' = [done EXCEPT ![c] = TRUE]
    /\ \/ Rollback(ctx[c].h)
       \/ UNCHANGED <<db, txs>>
    /\ UNCHANGED <<last, hvars, cvars, now, schema, errValidation, aborted>>

\* a caller of BeginTransaction lets go of the context it got: after it has
\* ended the transaction, or when its request has been cancelled
DropContext(c) ==
    /\ Free(c)
    /\ stack[c] = <<>>
    /\ IsInTransaction(ctx[c])
    /\ ~OpenTx(ctx[c].h) \/ done[c]
    /\ ctx' = [ctx EXCEPT ![c] = NoValue]
    /\ UNCHANGED <<db, txs, last, stack, reg, hvars, evars>>

\* ---------------------------------------------------------------- callers
\* entities a caller can hand to the store: a NewUser / NewMoneyFlow result,
\* or a value it read and changed, with IncrementVersion applied any number
\* of times
UserEntities ==
    [id : UserIds, full_name : Names, phone_number : Phones, image : {NULL},
     version : Versions, created_at : {now}, updated_at : {now}, deleted_at : {NullTime}]

MoneyFlowEntities ==
    [id : FlowIds, user_id : UserIds, category : Categories, amount : Amounts,
     currency : {"IDR"}, description : {NULL}, tags : {<<>>}, version : Versions,
     created_at : {now}, updated_at : {now}, deleted_at : {NullTime}]

Pages == {<<1, 0>>, <<1, 1>>, <<MaxRows, 0>>}

NoReg == [pc |-> "idle", fullName |-> NULL, email |-> NULL, password |-> NULL,
          user |-> 0, fnres |-> Nil]

\* ------------------------------------------------- AuthService.Register
\* Register is entered (the "email-password" provider row is configured, so
\* FindByName returns it)
RegisterCall(c, fullName, email, password) ==
    /\ Free(c)
    /\ c \in Direct
    /\ ctx[c] = NoValue
    /\ reg' = [reg EXCEPT ![c] = [NoReg EXCEPT !.pc = "check", !.fullName = fullName,
                                               !.email = email, !.password = password]]
    /\ UNCHANGED <<db, txs, ctx, stack, last, hvars, evars>>

\* userAuthRepo.FindByCredentialID(ctx, email, provider.ID)
RegisterCheckEmail(c) ==
    /\ reg[c].pc = "check"
    /\ UserAuthFindByCredentialID(c, reg[c].email, EmailPasswordProvider)

\* the outcome of the check: ErrEmailAlreadyExists when a link was found, a
\* wrapped error for a storage error; otherwise the password is hashed
RegisterChecked(c) ==
    /\ reg[c].pc = "check"
    /\ last.caller = c /\ last.op = "FindByCredentialID"
    /\ IF last.err = ErrNotFound
       THEN /\ reg' = [reg EXCEPT ![c].pc = "begin"]
            /\ last' = NoCall
       ELSE /\ reg' = [reg EXCEPT ![c] = NoReg]
            /\ last' = [NoCall EXCEPT !.caller = c, !.op = "Register",
                          !.err = IF last.err = Nil THEN ErrEmailAlreadyExists
                                                    ELSE ErrCheckEmailFailed]
    /\ UNCHANGED <<db, txs, ctx, stack, hvars, evars>>

\* txManager.WithTransaction(ctx, func(txCtx) ...)
RegisterBeginTx(c) ==
    /\ reg[c].pc = "begin"
    /\ stack[c] = <<>>
    /\ WithTransactionEnter(c)

\* user = domain.NewUser(fullName, email); userRepo.Create(txCtx, user)
RegisterCreateUser(c) ==
    /\ reg[c].pc = "begin"
    /\ stack[c] # <<>>
    /\ CanInsert("users")
    /\ UserCreate(c, NewUser(FreshId("users"), reg[c].fullName, reg[c].email))

RegisterUserCreated(c) ==
    /\ reg[c].pc = "begin"
    /\ last.caller = c /\ last.op = "Create"
    /\ reg' = [reg EXCEPT ![c] =
                 IF last.err = Nil THEN [@ EXCEPT !.pc = "auth", !.user = last.id]
                 ELSE [@ EXCEPT !.pc = "end", !.fnres = ErrCreateUserFailed]]
    /\ last' = NoCall
    /\ UNCHANGED <<db, txs, ctx, stack, hvars, evars>>

\* userAuthRepo.Create(txCtx, &UserAuth{ID: uuid.New(), UserID: user.ID, ...})
RegisterCreateUserAuth(c) ==
    /\ reg[c].pc = "auth"
    /\ CanInsert("auths")
    /\ UserAuthCreate(c, [id |-> FreshId("auths"), user_id |-> reg[c].user,
                          auth_provider_id |-> EmailPasswordProvider,
                          credential_id |-> reg[c].email,
                          credential_secret |-> Hash(reg[c].password)])

RegisterUserAuthCreated(c) ==
    /\ reg[c].pc = "auth"
    /\ last.caller = c /\ last.op = "Create"
    /\ reg' = [reg EXCEPT ![c].pc = "end",
                          ![c].fnres = IF last.err = Nil THEN Nil ELSE ErrCreateUserAuthFailed]
    /\ last' = NoCall
    /\ UNCHANGED <<db, txs, ctx, stack, hvars, evars>>

\* the callback returns: WithTransaction commits or rolls back
RegisterEndTx(c) ==
    /\ reg[c].pc = "end"
    /\ WithTransactionReturn(c, reg[c].fnres)

RegisterReturnEager(c) ==
    /\ reg[c].pc \in {"begin", "end"}
    /\ last.caller = c /\ last.op = "WithTransaction"
    /\ reg' = [reg EXCEPT ![c] = NoReg]
    /\ \E tokens \in {Nil, ErrGenerateTokenFailed} :
          last' = [NoCall EXCEPT !.caller = c, !.op = "Register", !.id = reg[c].user,
                                 !.fn = reg[c].fnres, !.err = tokens]
    /\ UNCHANGED <<db, txs, ctx, stack, hvars, evars>>

\* Register returns: the error of WithTransaction, or the tokens, whose
\* generation can fail after the commit
RegisterReturn(c) ==
    /\ reg[c].pc \in {"begin", "end"}
    /\ last.caller = c /\ last.op = "WithTransaction"
    /\ reg' = [reg EXCEPT ![c] = NoReg]
    /\ \E tokens \in {Nil, ErrGenerateTokenFailed} :
          last' = [NoCall EXCEPT !.caller = c, !.op = "Register", !.id = reg[c].user,
                                 !.fn = reg[c].fnres,
                                 !.err = IF last.err = Nil THEN tokens ELSE last.err]
    /\ UNCHANGED <<db, txs, ctx, stack, hvars, evars>>

\* ---------------------------------------------------- AuthService.Login
\* Login is entered (FindByName returns the configured provider row)
LoginCall(c, email, password) ==
    /\ Free(c)
    /\ c \in Direct
    /\ ctx[c] = NoValue
    /\ reg' = [reg EXCEPT ![c] = [NoReg EXCEPT !.pc = "find", !.email = email,
                                               !.password = password]]
    /\ UNCHANGED <<db, txs, ctx, stack, last, hvars, evars>>

\* what Login returns to its caller
LoginResult(c, user, err) ==
    /\ reg' = [reg EXCEPT ![c] = NoReg]
    /\ last' = [NoCall EXCEPT !.caller = c, !.op = "Login", !.id = user, !.err = err]

\* userAuthRepo.FindByCredentialID(ctx, email, provider.ID)
LoginFindUserAuth(c) ==
    /\ reg[c].pc = "find"
    /\ UserAuthFindByCredentialID(c, reg[c].email, EmailPasswordProvider)

\* ErrNotFound and a password that does not verify give ErrInvalidCredentials,
\* another error is wrapped; otherwise the user is looked up
LoginUserAuthFound(c) ==
    /\ reg[c].pc = "find"
    /\ last.caller = c /\ last.op = "FindByCredentialID"
    /\ IF last.err = ErrNotFound
       THEN LoginResult(c, 0, ErrInvalidCredentials)
       ELSE IF last.err # Nil
       THEN LoginResult(c, 0, ErrFindUserAuthFailed)
       ELSE LET userAuth == db["auths"][last.id]
            IN IF ~IsValidPassword(userAuth.credential_secret, reg[c].password)
               THEN LoginResult(c, 0, ErrInvalidCredentials)
               ELSE /\ reg' = [reg EXCEPT ![c].pc = "user", ![c].user = userAuth.user_id]
                    /\ last' = NoCall
    /\ UNCHANGED <<db, txs, ctx, stack, hvars, evars>>

\* userRepo.FindByID(ctx, userAuth.UserID)
LoginFindUser(c) ==
    /\ reg[c].pc = "user"
    /\ UserFindByID(c, reg[c].user)

\* every error of FindByID is wrapped; otherwise the tokens are generated,
\* which can fail
LoginUserFound(c) ==
    /\ reg[c].pc = "user"
    /\ last.caller = c /\ last.op = "FindByID"
    /\ IF last.err # Nil
       THEN LoginResult(c, 0, ErrFindUserFailed)
       ELSE \E tokens \in {Nil, ErrGenerateTokenFailed} :
               LoginResult(c, IF tokens = Nil THEN reg[c].user ELSE 0, tokens)
    /\ UNCHANGED <<db, txs, ctx, stack, hvars, evars>>

\* ------------------------------------------------------------ pkg/errors
\* a string is the sequence of its parts
NoError == [app |-> FALSE, text |-> <<>>]
NoDetails == <<>>

StatusBadRequest == 400
StatusUnauthorized == 401
StatusConflict == 409
StatusInternalServerError == 500

ErrCodeInternal == "INTERNAL_ERROR"
ErrCodeValidation == "VALIDATION_ERROR"
ErrCodeInvalidCredentials == "INVALID_CREDENTIALS"
ErrCodeEmailAlreadyExists == "EMAIL_ALREADY_EXISTS"

\* an error value that is not an *AppError, with its Error() text
RawError(text) == [app |-> FALSE, text |-> <<text>>]

\* errors.New
New(code, message, httpStatus) ==
    [app |-> TRUE, code |-> code, message |-> <<message>>, status |-> httpStatus,
     details |-> NoDetails, err |-> NoError]

\* errors.Wrap
Wrap(err, code, message, httpStatus) ==
    [app |-> TRUE, code |-> code, message |-> <<message>>, status |-> httpStatus,
     details |-> NoDetails, err |-> err]

\* AppError.WithDetails
WithDetails(e, details) == [e EXCEPT !.details = details]

\* errors.IsAppError: err.(*AppError)
IsAppError(err) == err.app

\* AppError.Error: "[code] message: cause"; the causes wrapped here are not
\* AppErrors
Error(e) ==
    IF ~IsAppError(e) THEN e.text
    ELSE IF e.err # NoError
    THEN <<"[", e.code, "] ">> \o e.message \o <<": ">> \o e.err.text
    ELSE <<"[", e.code, "] ">> \o e.message

\* the predefined ErrValidation as the package initialises it
ErrValidation == New(ErrCodeValidation, "Validation failed", StatusBadRequest)

\* the state after construction, whatever built the tables
InitStore ==
    /\ db = [tb \in Tables |-> EmptyTable(tb)]
    /\ txs = [t \in TxIds |-> [status |-> "idle", w |-> EmptyWrites]]
    /\ ctx = [c \in Callers |-> NoValue]
    /\ stack = [c \in Callers |-> <<>>]
    /\ last = NoCall
    /\ nUpdates = [tb \in Tables |-> [i \in Ids(tb) |-> 0]]
    /\ created0 = {}
    /\ deleted = {}
    /\ reg = [c \in Callers |-> NoReg]
    /\ now = 0
    /\ done = [c \in Callers |-> FALSE]
    /\ errValidation = ErrValidation
    /\ aborted = [c \in Callers |-> NULL]

\* the tables were built by the SQL migration
Init ==
    /\ InitStore
    /\ schema = "migration"

\* the tables were built by the migration or by AutoMigrate from the model tags
InitAnySchema ==
    /\ InitStore
    /\ schema \in {"migration", "automigrate"}

\* a caller creates a user: NewUser, optionally IncrementVersion, Create
DoUserCreate ==
    \E c \in Direct, n \in Names, p \in Phones :
        /\ CanInsert("users")
        /\ UserCreate(c, NewUser(FreshId("users"), n, p))

DoUserFindByID == \E c \in Direct, id \in UserIds : UserFindByID(c, id)
DoUserFindByPhoneNumber == \E c \in Direct, p \in Phones : UserFindByPhoneNumber(c, p)
DoUserUpdate == \E c \in Direct, u \in UserEntities : UserUpdate(c, u)
\* a caller changes the phone number of a stored user: it takes the stored
\* values, sets the number, calls IncrementVersion and then Update
DoUserChangePhone ==
    \E c \in Direct, i \in UserIds, p \in Phones :
        /\ Active(db["users"][i])
        /\ db["users"][i].version < MaxPhoneChanges
        /\ UserUpdate(c, IncrementVersion([db["users"][i] EXCEPT !.phone_number = p]
                                          @@ [id |-> i]))

DoUserDelete == \E c \in Direct, id \in UserIds : UserDelete(c, id)
DoUserList == \E c \in Direct, pg \in Pages : UserList(c, pg[1], pg[2])

DoMoneyFlowCreate ==
    \E c \in Direct, u \in UserIds, a \in Amounts :
        /\ CanInsert("flows")
        /\ MoneyFlowCreate(c, NewMoneyFlow(FreshId("flows"), u, a))

DoMoneyFlowFindByID == \E c \in Direct, id \in FlowIds : MoneyFlowFindByID(c, id)
DoMoneyFlowFindByUserID ==
    \E c \in Direct, u \in UserIds, pg \in Pages : MoneyFlowFindByUserID(c, u, pg[1], pg[2])
DoMoneyFlowUpdate == \E c \in Direct, mf \in MoneyFlowEntities : MoneyFlowUpdate(c, mf)
DoMoneyFlowDelete == \E c \in Direct, id \in FlowIds : MoneyFlowDelete(c, id)

\* the result of the last call has been handed to its caller
Returned ==
    /\ last.op # "none"
    /\ last.caller \in Direct
    /\ last' = NoCall
    /\ UNCHANGED <<db, txs, hvars, cvars, evars>>

\* the repositories used on the ambient connection
StoreNext ==
    \/ Returned
    \/ DoUserCreate
    \/ DoUserFindByID
    \/ DoUserFindByPhoneNumber
    \/ DoUserUpdate
    \/ DoUserDelete
    \/ DoUserList
    \/ DoMoneyFlowCreate
    \/ DoMoneyFlowFindByID
    \/ DoMoneyFlowFindByUserID
    \/ DoMoneyFlowUpdate
    \/ DoMoneyFlowDelete

SpecStore == Init /\ [][StoreNext]_vars


DoWithTransactionEnter == \E c \in Direct : WithTransactionEnter(c)
DoWithTransactionReturn ==
    \E c \in Direct, result \in FnResults : WithTransactionReturn(c, result)

\* callers that run user-repository calls inside and outside WithTransaction
TxNext ==
    \/ Returned
    \/ DoWithTransactionEnter
    \/ DoWithTransactionReturn
    \/ DoUserCreate
    \/ DoUserFindByID
    \/ DoUserDelete

SpecTx == Init /\ [][TxNext]_vars


DoUserAuthCreate ==
    \E c \in Direct, u \in UserIds, p \in Phones, secret \in Secrets :
        /\ CanInsert("auths")
        /\ UserAuthCreate(c, [id |-> FreshId("auths"), user_id |-> u,
                              auth_provider_id |-> EmailPasswordProvider,
                              credential_id |-> p, credential_secret |-> secret])
DoUserAuthFindByCredentialID ==
    \E c \in Direct, p \in Phones : UserAuthFindByCredentialID(c, p, EmailPasswordProvider)
DoUserAuthDelete == \E c \in Direct, id \in AuthIds : UserAuthDelete(c, id)

DoRegisterCall == \E c \in Callers, n \in Names, e \in Phones : RegisterCall(c, n, e, "pw1")

\* a registration that starts while no other one is running; the callers are
\* interchangeable, so it is the first caller that registers
DoRegisterAlone ==
    \E n \in Names, e \in Phones :
        /\ \A d \in Callers : reg[d].pc = "idle"
        /\ RegisterCall(Min(Callers), n, e, "pw1")

\* the steps of the Register activations
RegisterNext ==
    \E c \in Callers :
        \/ RegisterCheckEmail(c)
        \/ RegisterChecked(c)
        \/ RegisterBeginTx(c)
        \/ RegisterCreateUser(c)
        \/ RegisterUserCreated(c)
        \/ RegisterCreateUserAuth(c)
        \/ RegisterUserAuthCreated(c)
        \/ RegisterEndTx(c)
        \/ RegisterReturn(c)

\* concurrent registrations, with callers that read and delete what they made
RegNext ==
    \/ Returned
    \/ DoRegisterCall
    \/ RegisterNext
    \/ DoUserFindByPhoneNumber
    \/ DoUserAuthFindByCredentialID
    \/ DoUserDelete
    \/ DoUserAuthDelete

SpecReg == Init /\ [][RegNext]_vars

\* registrations among callers that create, change and delete users and links
KeysNext ==
    \/ Returned
    \/ DoRegisterAlone
    \/ RegisterNext
    \/ DoUserCreate
    \/ DoUserChangePhone
    \/ DoUserDelete
    \/ DoUserAuthCreate
    \/ DoUserAuthDelete

SpecKeys == Init /\ [][KeysNext]_vars

\* users created, looked up and deleted on tables built by either schema
\* definition
SchemaNext ==
    \/ Returned
    \/ DoUserCreate
    \/ DoUserFindByPhoneNumber
    \/ DoUserDelete

SpecSchema == InitAnySchema /\ [][SchemaNext]_vars

\* one caller runs its calls in a transaction that ends with a commit or with
\* an error of fn (the callers are interchangeable: it is the first one)
DoTransactionBegin ==
    /\ Min(Callers) \in Direct
    /\ stack[Min(Callers)] = <<>>
    /\ WithTransactionEnter(Min(Callers))

DoTransactionEnd ==
    /\ Min(Callers) \in Direct
    /\ \E result \in {Nil, ErrFn} : WithTransactionReturn(Min(Callers), result)

\* a caller links a stored user to the provider under the user's phone number
\* (as Register does, which passes the email for both)
DoUserAuthLink ==
    \E c \in Direct, u \in UserIds, secret \in Secrets :
        /\ CanInsert("auths")
        /\ View(GetDB(ctx[c]), "users")[u] # NoRow
        /\ UserAuthCreate(c, [id |-> FreshId("auths"), user_id |-> u,
                              auth_provider_id |-> EmailPasswordProvider,
                              credential_id |-> View(GetDB(ctx[c]), "users")[u].phone_number,
                              credential_secret |-> secret])

\* no caller is inside WithTransaction
NoTransaction == \A c \in Callers : ctx[c] = NoValue

\* rows are created while no transaction is open
DoUserCreateAlone == NoTransaction /\ DoUserCreate
DoMoneyFlowCreateAlone == NoTransaction /\ DoMoneyFlowCreate
DoUserAuthLinkAlone == NoTransaction /\ DoUserAuthLink

\* rows of the three tables are created, and then deleted by one caller
\* inside WithTransaction and by the others outside
DeleteNext ==
    \/ Returned
    \/ DoTransactionBegin
    \/ DoTransactionEnd
    \/ DoUserCreateAlone
    \/ DoMoneyFlowCreateAlone
    \/ DoUserAuthLinkAlone
    \/ DoUserDelete
    \/ DoMoneyFlowDelete
    \/ DoUserAuthDelete

SpecDelete == Init /\ [][DeleteNext]_vars

\* some caller is inside Login
LoginRunning == \E d \in Callers : reg[d].pc \in {"find", "user"}

\* a registration with any password, started while no Login is running
DoRegisterWithPassword ==
    \E c \in Callers, n \in Names, e \in Phones, pw \in Passwords :
        /\ ~LoginRunning
        /\ RegisterCall(c, n, e, pw)

\* a Login started while no Register and no other Login is running
DoLoginCall ==
    \E c \in Callers, e \in Phones, pw \in Passwords :
        /\ \A d \in Callers : reg[d].pc = "idle"
        /\ LoginCall(c, e, pw)

\* the steps of the Login activations
LoginNext ==
    \E c \in Callers :
        \/ LoginFindUserAuth(c)
        \/ LoginUserAuthFound(c)
        \/ LoginFindUser(c)
        \/ LoginUserFound(c)

\* registrations and logins, with callers that delete users and links
LoginSpecNext ==
    \/ Returned
    \/ DoRegisterWithPassword
    \/ RegisterNext
    \/ DoLoginCall
    \/ LoginNext
    \/ DoUserDelete
    \/ DoUserAuthDelete

SpecLogin == Init /\ [][LoginSpecNext]_vars

\* ------------------------------------------------- middleware.ErrorHandler
ErrorHandlerLeaky(err) ==
    IF IsAppError(err)
    THEN [status |-> err.status,
          body |-> [status |-> "error", message |-> Error(err),
                    errors |-> IF err.details # NoDetails
                               THEN err.details @@ [code |-> err.code]
                               ELSE [code |-> err.code]]]
    ELSE [status |-> StatusInternalServerError,
          body |-> [status |-> "error", message |-> <<"An internal error occurred">>,
                    errors |-> [code |-> ErrCodeInternal]]]

\* the response written for the last error of the request: Message, code and
\* Details of an AppError under its HTTPStatus; the generic 500 otherwise
ErrorHandler(err) ==
    IF IsAppError(err)
    THEN [status |-> err.status,
          body |-> [status |-> "error", message |-> err.message,
                    errors |-> IF err.details # NoDetails
                               THEN err.details @@ [code |-> err.code]
                               ELSE [code |-> err.code]]]
    ELSE [status |-> StatusInternalServerError,
          body |-> [status |-> "error", message |-> <<"An internal error occurred">>,
                    errors |-> [code |-> ErrCodeInternal]]]

\* the errors of the repositories, of gorm's Begin and Commit, of bcrypt and
\* of the token signing that the services wrap or hand on
Causes ==
    {RawError(t) : t \in StorageErrors \cup {ErrNotFound, ErrDuplicatePhoneNumber,
                                              "bcrypt: password too long",
                                              "jwt: key is invalid"}}

\* the messages of the Wrap calls in AuthService.Register and Login
WrapMessages ==
    {"Failed to find auth provider", "Failed to check existing email",
     "Failed to hash password", "Failed to create user", "Failed to create user auth",
     "Failed to generate access token", "Failed to generate refresh token",
     "Failed to find user auth", "Failed to find user"}

\* what ShouldBindJSON reports
BindErrors == {"EOF", "Key: 'RegisterRequest.Email' Error:Field validation"}

\* every error AuthHandler.Register and AuthHandler.Login abort with
HandlerErrors ==
    {Wrap(cause, ErrCodeInternal, m, StatusInternalServerError) :
        cause \in Causes, m \in WrapMessages}
    \cup {New(ErrCodeInternal, "Authentication provider not configured",
              StatusInternalServerError),
          New(ErrCodeInvalidCredentials, "Invalid email or password", StatusUnauthorized),
          New(ErrCodeEmailAlreadyExists, "Email already registered", StatusConflict)}
    \cup {WithDetails(New(ErrCodeValidation, "Validation failed", StatusBadRequest),
                      [validation_errors |-> <<b>>]) : b \in BindErrors}
    \cup {RawError(t) : t \in StorageErrors}

\* a handler aborts with err and the middleware writes the response
Respond(c, err) ==
    /\ Free(c)
    /\ c \in Direct
    /\ last' = [NoCall EXCEPT !.caller = c, !.op = "Respond", !.vals = <<err>>,
                              !.rows = <<ErrorHandler(err)>>]
    /\ UNCHANGED <<db, txs, hvars, cvars, evars>>

DoRespond == \E c \in Callers, err \in HandlerErrors : Respond(c, err)

\* requests that end with an error
HttpNext ==
    \/ Returned
    \/ DoRespond

SpecHttp == Init /\ [][HttpNext]_vars

\* time passes between two calls
Tick ==
    /\ now < MaxTime
    /\ last.op = "none"
    /\ now' = now + 1
    /\ UNCHANGED <<db, txs, last, hvars, cvars, schema, done, errValidation, aborted>>

\* users created, updated with any entity value and deleted, and
\* registrations, while time passes
WriteOnceNext ==
    \/ Returned
    \/ Tick
    \/ DoUserCreate
    \/ DoUserUpdate
    \/ DoUserDelete
    \/ DoRegisterAlone
    \/ RegisterNext

SpecWriteOnce == Init /\ [][WriteOnceNext]_vars

\* a caller creates a user or a money flow from an entity value it holds: a
\* constructor's result or a value it has applied IncrementVersion to
DoUserCreateEntity ==
    \E c \in Direct, u \in UserEntities :
        /\ CanInsert("users")
        /\ u.id = FreshId("users")
        /\ UserCreate(c, u)

DoMoneyFlowCreateEntity ==
    \E c \in Direct, mf \in MoneyFlowEntities :
        /\ CanInsert("flows")
        /\ mf.id = FreshId("flows")
        /\ MoneyFlowCreate(c, mf)

\* Creates of the three entity types with any entity value
CreateNext ==
    \/ Returned
    \/ DoUserCreateEntity
    \/ DoMoneyFlowCreateEntity
    \/ DoUserAuthCreate
    \/ DoUserDelete

SpecCreate == Init /\ [][CreateNext]_vars

\* a caller changes the password of a link it has read: it keeps the link's
\* user, provider and email and sets the password hash
DoUserAuthUpdate ==
    \E c \in Direct, i \in AuthIds, pw \in Passwords :
        /\ db["auths"][i] # NoRow
        /\ nUpdates["auths"][i] < MaxLinkUpdates
        /\ UserAuthUpdate(c, [id |-> i, user_id |-> db["auths"][i].user_id,
                              auth_provider_id |-> EmailPasswordProvider,
                              credential_id |-> db["auths"][i].credential_id,
                              credential_secret |-> Hash(pw)])

\* credential links of stored users created, updated and deleted while time
\* passes
LinksNext ==
    \/ Returned
    \/ Tick
    \/ DoUserCreate
    \/ DoUserAuthLink
    \/ DoUserAuthUpdate
    \/ DoUserAuthDelete

SpecLinks == Init /\ [][LinksNext]_vars

\* a caller pages through the users on the ambient connection: List(limit, 0)
\* and then List(limit, limit), two queries with no write in between, each
\* with the row order its own ORDER BY created_at DESC produced; the pages
\* are recorded one after the other
DoUserListPages ==
    \E c \in Direct, limit \in 1..MaxRows :
        LET rows == View(Ambient, "users")
            hit == {i \in UserIds : rows[i] # NoRow /\ SoftDeleteScope(rows[i])}
        IN /\ Free(c)
           /\ ctx[c] = NoValue
           /\ \E s1, s2 \in OrderByCreatedAtDesc(hit, rows) :
                 NoChange(c, "ListPages", "users", 0, limit, Nil,
                          LimitOffset(s1, limit, 0) \o LimitOffset(s2, limit, limit), Ambient)
           /\ UNCHANGED <<cvars, evars>>

\* users created and deleted while time passes, and listed page by page
PagesNext ==
    \/ Returned
    \/ Tick
    \/ DoUserCreate
    \/ DoUserDelete
    \/ DoUserListPages

SpecPages == Init /\ [][PagesNext]_vars

\* AuthHandler.Register / Login when ShouldBindJSON fails with the error text
\* b: ErrValidation.WithDetails(...) stores the details in the AppError that
\* the package variable points to and returns that pointer, which
\* AbortWithAppError appends to the request's c.Errors
BindFails(c, b) ==
    /\ c \in Direct
    /\ aborted[c] = NULL
    /\ errValidation' = WithDetails(errValidation, [validation_errors |-> <<b>>])
    /\ aborted' = [aborted EXCEPT ![c] = b]
    /\ UNCHANGED <<db, txs, last, hvars, cvars, now, schema, done>>

\* ErrorHandler after c.Next(): the last error of the request is the pointer
\* to ErrValidation, and the response is built from what it points to now
RespondValidation(c) ==
    /\ Free(c)
    /\ aborted[c] # NULL
    /\ last' = [NoCall EXCEPT !.caller = c, !.op = "RespondValidation",
                              !.vals = <<aborted[c]>>,
                              !.rows = <<ErrorHandler(errValidation)>>]
    /\ aborted' = [aborted EXCEPT ![c] = NULL]
    /\ UNCHANGED <<db, txs, hvars, cvars, now, schema, done, errValidation>>

\* the requests whose payload does not bind
ValidationNext ==
    \E c \in Callers :
        \/ \E b \in BindErrors : BindFails(c, b)
        \/ RespondValidation(c)

\* concurrent requests with invalid payloads
InvalidNext ==
    \/ Returned
    \/ ValidationNext

SpecInvalid == Init /\ [][InvalidNext]_vars

\* a caller updates a user or a money flow with an entity value whose
\* immutable fields need not be the stored ones: created_at is the time the
\* caller built the value, deleted_at may be set, and a money flow may name
\* another user
DoUserUpdateEntity ==
    \E c \in Direct, u \in UserEntities, d \in {NullTime, now} :
        UserUpdate(c, [u EXCEPT !.deleted_at = d])

DoMoneyFlowUpdateEntity ==
    \E c \in Direct, mf \in MoneyFlowEntities, d \in {NullTime, now} :
        MoneyFlowUpdate(c, [mf EXCEPT !.deleted_at = d])

\* users and money flows created and updated while time passes
FrameNext ==
    \/ Returned
    \/ Tick
    \/ DoUserCreate
    \/ DoMoneyFlowCreate
    \/ DoUserUpdateEntity
    \/ DoMoneyFlowUpdateEntity

SpecFrame == Init /\ [][FrameNext]_vars

\* callers that manage a transaction themselves, and the cancellation of
\* their request contexts; a cancelled request begins nothing new
UnitOfWork(c) ==
    \/ ~done[c] /\ BeginTransaction(c)
    \/ CommitTransaction(c)
    \/ RollbackTransaction(c)
    \/ Cancel(c)
    \/ DropContext(c)

UnitOfWorkNext == \E c \in Direct : UnitOfWork(c)

\* the callers are interchangeable: it is the first one that manages
\* transactions itself
DoUnitOfWork == UnitOfWork(Min(Callers))

DoWithTransactionEnterLive == \E c \in Direct : ~done[c] /\ WithTransactionEnter(c)

\* WithTransaction and the caller-managed transactions around user Creates
\* and reads
UnitNext ==
    \/ Returned
    \/ DoWithTransactionEnterLive
    \/ DoWithTransactionReturn
    \/ DoUnitOfWork
    \/ DoUserCreate

SpecUnit == Init /\ [][UnitNext]_vars

\* every operation of every caller
Next ==
    \/ Returned
    \/ DoUserCreate
    \/ DoUserFindByID
    \/ DoUserFindByPhoneNumber
    \/ DoUserUpdate
    \/ DoUserChangePhone
    \/ DoUserDelete
    \/ DoUserList
    \/ DoMoneyFlowCreate
    \/ DoMoneyFlowFindByID
    \/ DoMoneyFlowFindByUserID
    \/ DoMoneyFlowUpdate
    \/ DoMoneyFlowDelete
    \/ DoUserAuthCreate
    \/ DoUserAuthFindByCredentialID
    \/ DoUserAuthDelete
    \/ DoWithTransactionEnter
    \/ DoWithTransactionReturn
    \/ DoRegisterCall
    \/ DoRegisterWithPassword
    \/ RegisterNext
    \/ DoLoginCall
    \/ LoginNext
    \/ DoRespond
    \/ Tick
    \/ UnitOfWorkNext
    \/ ValidationNext

Spec == Init /\ [][Next]_vars


\* ================================================================ claims
Versioned == {"users", "flows"}

\* the call that returns in this step
Returns(op) == last.op = "none" /\ last'.op = op

\* the mutable columns of a stored row, in the order Update lists them
MutableVals(tb, row) ==
    IF tb = "users" THEN <<row.full_name, row.phone_number, row.image>>
    ELSE <<row.category, row.amount, row.currency, row.description, row.tags>>

\* C1 (conflict exclusivity): of the Updates that carry version V+1 for a row
\* stored at V, the one that reaches the store first succeeds, and the row
\* then holds version V+1 and exactly the values that Update was given; an
\* Update carrying V+1 that arrives when the row is already at V+1 returns
\* ErrConflict and changes nothing, so the row keeps the winner's values.
ConflictExclusivity ==
    [][(Returns("Update") /\ last'.tb \in Versioned /\ last'.err \notin StorageErrors) =>
        LET tb == last'.tb
            id == last'.id
            pre == db[tb][id]
        IN /\ (Active(pre) /\ pre.version = last'.ver - 1) =>
                /\ last'.err = Nil
                /\ db'[tb][id].version = pre.version + 1
                /\ MutableVals(tb, db'[tb][id]) = last'.vals
                /\ nUpdates'[tb][id] = nUpdates[tb][id] + 1
           /\ (pre # NoRow /\ pre.version = last'.ver) =>
                /\ last'.err = ErrConflict
                /\ db' = db
                /\ nUpdates' = nUpdates]_vars

\* C1 witness: after one Update took the row from V to V+1, another Update
\* carrying V+1 has returned ErrConflict; the row is active at V+1
ConflictExclusivityWitness ==
    /\ last.op = "Update"
    /\ last.err = ErrConflict
    /\ last.tb \in Versioned
    /\ Active(db[last.tb][last.id])
    /\ db[last.tb][last.id].version = last.ver
    /\ nUpdates[last.tb][last.id] >= 1

\* C2 (Update contract): without a storage error, Update returns nil exactly
\* when an active row with the entity's id and version = entity.Version - 1 is
\* stored; otherwise it returns ErrConflict (never ErrNotFound) and leaves the
\* stored data unchanged.
UpdateContract ==
    [][(Returns("Update") /\ last'.tb \in Versioned /\ last'.err \notin StorageErrors) =>
        LET rows == View(last'.h, last'.tb)
            matches == /\ last'.id \in Ids(last'.tb)
                       /\ Active(rows[last'.id])
                       /\ rows[last'.id].version = last'.ver - 1
        IN /\ (last'.err = Nil) <=> matches
           /\ ~matches => (last'.err = ErrConflict /\ db' = db /\ txs' = txs)]_vars

\* C2 witness: Update of a soft-deleted row, carrying its version + 1, has
\* returned ErrConflict
UpdateContractWitness ==
    /\ last.op = "Update"
    /\ last.tb \in Versioned
    /\ last.err = ErrConflict
    /\ db[last.tb][last.id] # NoRow
    /\ db[last.tb][last.id].deleted_at # NullTime
    /\ db[last.tb][last.id].version = last.ver - 1

\* C3 (version monotonicity): a row created at version 0 carries as version
\* the number of Updates that succeeded on it; a successful Update raises the
\* stored version by exactly 1 and no other step changes it.
VersionMonotonicity ==
    /\ [](\A tb \in Versioned : \A i \in Ids(tb) :
            (db[tb][i] # NoRow /\ <<tb, i>> \in created0) =>
                db[tb][i].version = nUpdates[tb][i])
    /\ [][\A tb \in Versioned : \A i \in Ids(tb) :
            db[tb][i] # NoRow =>
                /\ db'[tb][i] # NoRow
                /\ IF Returns("Update") /\ last'.tb = tb /\ last'.id = i /\ last'.err = Nil
                   THEN db'[tb][i].version = db[tb][i].version + 1
                   ELSE db'[tb][i].version = db[tb][i].version]_vars

\* C3 witness: a row created at version 0 on which two Updates succeeded
VersionMonotonicityWitness ==
    \E tb \in Versioned : \E i \in Ids(tb) :
        /\ <<tb, i>> \in created0
        /\ nUpdates[tb][i] = 2
        /\ db[tb][i].version = 2

\* C9 (soft-delete invisibility): once Delete(id) has succeeded, FindByID(id)
\* returns ErrNotFound and no FindByPhoneNumber / List / FindByUserID result
\* contains the row.
SoftDeleteInvisible ==
    [][(/\ last.op = "none"
        /\ last'.op \in {"FindByID", "FindByPhoneNumber", "List", "FindByUserID"}
        /\ last'.tb \in Versioned) =>
          /\ \A k \in 1..Len(last'.rows) : <<last'.tb, last'.rows[k]>> \notin deleted
          /\ (last'.op = "FindByID" /\ <<last'.tb, last'.id>> \in deleted) =>
                last'.err = ErrNotFound]_vars

\* C9 witness: FindByID of a deleted row returned ErrNotFound after the row
\* had been updated and then deleted
SoftDeleteInvisibleWitness ==
    /\ last.op = "FindByID"
    /\ last.err = ErrNotFound
    /\ <<last.tb, last.id>> \in deleted
    /\ nUpdates[last.tb][last.id] > 0


\* caller c's WithTransaction begins to run fn / has returned, in this step
Enters(c) == Len(stack'[c]) > Len(stack[c])
Leaves(c) == Len(stack'[c]) < Len(stack[c])
TopFrame(c) == stack[c][Len(stack[c])]

\* rows of the write set of handle t
Written(t) == {<<tb, i>> \in Tables \X (1..MaxRows) : txs[t].w[tb][i] # Untouched}

\* C5 (commit iff nil): WithTransaction on a context without a transaction
\* opens one transaction; it commits it only when fn returned nil, and does
\* so then unless COMMIT itself fails; when fn returns an error e the
\* transaction is rolled back, no row fn wrote through it changes in the
\* committed store, and WithTransaction returns exactly e.
CommitIffNil ==
    [][\A c \in Callers :
        /\ (Enters(c) /\ ctx[c] = NoValue) =>
              \E t \in TxIds :
                  /\ ~OpenTx(t) /\ txs'[t].status = "open"
                  /\ ctx'[c] = SetTransactionInContext(t)
                  /\ \A u \in TxIds \ {t} : txs'[u] = txs[u]
        /\ (Leaves(c) /\ TopFrame(c).outer = NoValue) =>
              LET t == ctx[c].h
              IN /\ OpenTx(t)
                 /\ txs'[t].status \in {"committed", "rolledback"}
                 /\ (txs'[t].status = "committed") => last'.fn = Nil
                 /\ (last'.fn = Nil /\ last'.err # PgFault) =>
                        /\ txs'[t].status = "committed"
                        /\ last'.err = Nil
                        /\ \A k \in Written(t) : db'[k[1]][k[2]] = txs[t].w[k[1]][k[2]]
                 /\ (last'.fn = ErrFn) =>
                        /\ txs'[t].status = "rolledback"
                        /\ db' = db
                        /\ last'.err = ErrFn]_vars

\* C5 witness: fn created a user through the transaction and returned an
\* error; WithTransaction returned that error and the user is not stored
CommitIffNilWitness ==
    /\ last.op = "WithTransaction"
    /\ last.fn = ErrFn
    /\ last.err = ErrFn
    /\ ctx[last.caller] = NoValue
    /\ txs[last.h].status = "rolledback"
    /\ \E k \in 1..Len(last.rows) : db["users"][last.rows[k]] = NoRow

\* C6 (panic rolls back): when fn panics in the WithTransaction that began
\* the transaction, the transaction is rolled back in the same step in which
\* the panic leaves WithTransaction: the committed store is unchanged and the
\* transaction is no longer open.
PanicRollsBack ==
    [][\A c \in Callers :
        (Leaves(c) /\ TopFrame(c).outer = NoValue /\ last'.fn = Panic) =>
            LET t == ctx[c].h
            IN /\ txs'[t].status = "rolledback"
               /\ db' = db
               /\ last'.err = Panic
               /\ \A u \in TxIds : txs[u].status # "open" => txs'[u] = txs[u]]_vars

\* C6 witness: fn deleted a stored user through the transaction (a Create
\* would have used an unused id) and then panicked; the user is still active
PanicRollsBackWitness ==
    /\ last.op = "WithTransaction"
    /\ last.fn = Panic
    /\ ctx[last.caller] = NoValue
    /\ txs[last.h].status = "rolledback"
    /\ \E k \in 1..Len(last.rows) : Active(db["users"][last.rows[k]])

\* C7 (nested reuse): WithTransaction on a context that carries a transaction
\* runs fn with the same context, begins nothing, and on return neither
\* commits nor rolls back; a transaction ends only in the step in which the
\* WithTransaction that began it returns.
NestedReuse ==
    [][/\ \A c \in Callers :
            /\ (Enters(c) /\ ctx[c] # NoValue) =>
                  (ctx'[c] = ctx[c] /\ txs' = txs /\ db' = db)
            /\ (Leaves(c) /\ TopFrame(c).outer # NoValue) =>
                  /\ ctx'[c] = ctx[c]
                  /\ txs' = txs
                  /\ db' = db
                  /\ last'.err = last'.fn
       /\ \A t \in TxIds :
            (OpenTx(t) /\ txs'[t].status # "open") =>
                \E c \in Callers :
                    /\ Leaves(c) /\ stack'[c] = <<>>
                    /\ ctx[c] = SetTransactionInContext(t)
                    /\ \A u \in TxIds \ {t} : txs'[u] = txs[u]]_vars

\* C7 witness: an inner WithTransaction whose fn wrote a row has returned an
\* error, and the transaction is still open with that write pending
NestedReuseWitness ==
    /\ last.op = "WithTransaction"
    /\ last.fn = ErrFn
    /\ Len(stack[last.caller]) = 1
    /\ ctx[last.caller] = SetTransactionInContext(last.h)
    /\ OpenTx(last.h)
    /\ Written(last.h) # {}

\* C8 (transaction dispatch): a repository call made with a context for which
\* IsInTransaction holds runs on the handle stored in that context and
\* leaves the committed store and every other transaction alone; with a
\* context carrying no transaction it runs on the ambient connection.
TransactionDispatch ==
    [][(last.op = "none" /\ last'.op \notin {"none", "WithTransaction"}) =>
        LET cx == ctx[last'.caller]
        IN IF IsInTransaction(cx)
           THEN /\ last'.h = cx.h
                /\ db' = db
                /\ \A t \in TxIds \ {cx.h} : txs'[t] = txs[t]
           ELSE /\ last'.h = Ambient
                /\ txs' = txs]_vars

\* C8 witness: a Create made inside a transaction is in the transaction's
\* write set and not in the committed store
TransactionDispatchWitness ==
    /\ last.op = "Create"
    /\ last.err = Nil
    /\ last.h # Ambient
    /\ ctx[last.caller] = SetTransactionInContext(last.h)
    /\ txs[last.h].w["users"][last.id] # Untouched
    /\ db["users"][last.id] = NoRow


Handles == {Ambient} \cup {t \in TxIds : OpenTx(t)}

\* C10 (natural-key uniqueness): in the committed store and in what every
\* open transaction sees, no two active users share a phone number and no two
\* active credential links share (user_id, auth_provider_id).
NaturalKeysUnique ==
    \A h \in Handles :
        /\ \A i, j \in UserIds :
              (i # j /\ Active(View(h, "users")[i]) /\ Active(View(h, "users")[j])) =>
                  View(h, "users")[i].phone_number # View(h, "users")[j].phone_number
        /\ \A a, b \in AuthIds :
              (a # b /\ Active(View(h, "auths")[a]) /\ Active(View(h, "auths")[b])) =>
                  KeyOf("auths", View(h, "auths")[a]) # KeyOf("auths", View(h, "auths")[b])

\* C10 witness: a soft-deleted user and an active user share a phone number,
\* and a soft-deleted link and an active link share (user, provider)
NaturalKeysUniqueWitness ==
    /\ \E i, j \in UserIds :
          /\ db["users"][i] # NoRow /\ db["users"][i].deleted_at # NullTime
          /\ Active(db["users"][j])
          /\ db["users"][i].phone_number = db["users"][j].phone_number
    /\ \E a, b \in AuthIds :
          /\ db["auths"][a] # NoRow /\ db["auths"][a].deleted_at # NullTime
          /\ Active(db["auths"][b])
          /\ KeyOf("auths", db["auths"][a]) = KeyOf("auths", db["auths"][b])

\* the natural key of the row a Create was given, from the call record
CreatedKey(call) ==
    IF call.tb = "users" THEN <<call.vals[2]>> ELSE <<call.vals[1], call.vals[2]>>

\* C11 (duplicate on create): when the statement reaches the store, Create of
\* a user or credential link whose natural key equals that of an active row
\* returns the Duplicate domain error (ErrDuplicatePhoneNumber for users, a
\* domain error and no storage error for links) and inserts nothing.
CreateDuplicate ==
    [][(/\ Returns("Create")
        /\ last'.tb \in {"users", "auths"}
        /\ last'.err \notin {ErrTxDone, PgFault}
        /\ \E j \in Ids(last'.tb) \ {last'.id} :
              /\ Active(View(last'.h, last'.tb)[j])
              /\ KeyOf(last'.tb, View(last'.h, last'.tb)[j]) = CreatedKey(last')) =>
          /\ IF last'.tb = "users" THEN last'.err = ErrDuplicatePhoneNumber
             ELSE last'.err \notin StorageErrors \cup {Nil}
          /\ db' = db
          /\ txs' = txs]_vars

\* C12 (re-creation after soft delete): with either schema definition, Create
\* of a user whose phone number is carried only by soft-deleted users succeeds
\* and stores the new active row.
RecreateAfterDelete ==
    [][(/\ Returns("Create")
        /\ last'.tb = "users"
        /\ \E j \in UserIds : /\ db["users"][j] # NoRow
                               /\ db["users"][j].deleted_at # NullTime
                               /\ db["users"][j].phone_number = last'.vals[2]
        /\ \A j \in UserIds : Active(db["users"][j]) =>
                                  db["users"][j].phone_number # last'.vals[2]) =>
          /\ last'.err = Nil
          /\ Active(db'["users"][last'.id])
          /\ db'["users"][last'.id].phone_number = last'.vals[2]]_vars

\* what handle h sees of row <<tb, i>> after the step
ViewAfter(h, tb, i) ==
    IF h = Ambient \/ txs'[h].w[tb][i] = Untouched THEN db'[tb][i] ELSE txs'[h].w[tb][i]

\* C13 (Delete contract): without a storage error, Delete(id) succeeds exactly
\* when the handle sees an active row with that id, and the row is then
\* soft-deleted for that handle; for an id never created and for a row already
\* soft-deleted it returns ErrNotFound and changes nothing.  Hence a row is
\* deleted by at most one Delete: a Delete that succeeds on the ambient
\* connection is the first to do so, and every later one returns ErrNotFound.
DeleteContract ==
    [][(Returns("Delete") /\ last'.err \notin StorageErrors) =>
        LET tb == last'.tb
            id == last'.id
            row == View(last'.h, tb)[id]
        IN /\ (last'.err = Nil) <=> Active(row)
           /\ Active(row) =>
                 /\ ViewAfter(last'.h, tb, id) # NoRow
                 /\ ViewAfter(last'.h, tb, id).deleted_at # NullTime
           /\ ~Active(row) => (last'.err = ErrNotFound /\ db' = db /\ txs' = txs)
           /\ (last'.h = Ambient /\ last'.err = Nil) =>
                 (<<tb, id>> \notin deleted /\ <<tb, id>> \in deleted')
           /\ (last'.h = Ambient /\ <<tb, id>> \in deleted) => last'.err = ErrNotFound]_vars

\* C13 witness: a Delete outside the transaction returned ErrNotFound for a
\* row whose Delete inside the transaction had been committed before
DeleteContractWitness ==
    /\ last.op = "Delete"
    /\ last.err = ErrNotFound
    /\ last.h = Ambient
    /\ db[last.tb][last.id] # NoRow
    /\ db[last.tb][last.id].deleted_at # NullTime
    /\ <<last.tb, last.id>> \notin deleted

\* C14 (deleted_at is write-once): a row whose deleted_at is set stays stored
\* with the same deleted_at, in the committed store and in what every handle
\* that stays open sees, whatever Create, Update, Delete or Register step is
\* taken.
DeletedAtWriteOnce ==
    [][\A tb \in Tables : \A i \in Ids(tb) :
        /\ (db[tb][i] # NoRow /\ db[tb][i].deleted_at # NullTime) =>
              /\ db'[tb][i] # NoRow
              /\ db'[tb][i].deleted_at = db[tb][i].deleted_at
        /\ \A t \in TxIds :
              (/\ OpenTx(t) /\ txs'[t].status = "open"
               /\ View(t, tb)[i] # NoRow
               /\ View(t, tb)[i].deleted_at # NullTime) =>
                  /\ ViewAfter(t, tb, i) # NoRow
                  /\ ViewAfter(t, tb, i).deleted_at = View(t, tb)[i].deleted_at]_vars

\* C14 witness: after time has passed, an Update carrying version + 1 and a
\* nil DeletedAt was tried on a user deleted earlier, and the row still has
\* the deletion time
DeletedAtWriteOnceWitness ==
    /\ last.op = "Update"
    /\ last.tb = "users"
    /\ db["users"][last.id] # NoRow
    /\ db["users"][last.id].deleted_at # NullTime
    /\ db["users"][last.id].deleted_at < now
    /\ db["users"][last.id].version = last.ver - 1

\* C15 (Delete is not version-gated): without a storage error, Delete of a
\* user or money flow never returns ErrConflict; it succeeds on an active row
\* whatever version the row has reached, and leaves the version as it is.
DeleteNotVersionGated ==
    [][(Returns("Delete") /\ last'.tb \in Versioned /\ last'.err \notin StorageErrors) =>
        LET row == View(last'.h, last'.tb)[last'.id]
        IN /\ last'.err # ErrConflict
           /\ Active(row) =>
                 /\ last'.err = Nil
                 /\ ViewAfter(last'.h, last'.tb, last'.id).version = row.version]_vars

\* C15 witness: a Delete has succeeded on a row that an Update had moved to
\* a later version
DeleteNotVersionGatedWitness ==
    /\ last.op = "Delete"
    /\ last.err = Nil
    /\ last.tb \in Versioned
    /\ nUpdates[last.tb][last.id] >= 1
    /\ db[last.tb][last.id].version >= 1
    /\ db[last.tb][last.id].deleted_at # NullTime

\* Register of some caller returns in this step
RegisterReturns == last'.op = "Register" /\ last.op # "Register"

\* outcomes of Register that a failure of the connection or of the token
\* generation produces
RegisterFaults ==
    {PgFault, ErrCheckEmailFailed, ErrCreateUserAuthFailed, ErrGenerateTokenFailed}

\* an active credential link for the email is stored
Registered(store, email) ==
    \E a \in AuthIds : /\ Active(store["auths"][a])
                        /\ store["auths"][a].credential_id = email
                        /\ store["auths"][a].auth_provider_id = EmailPasswordProvider

\* C16 (duplicate registration): a Register that does not succeed while the
\* email is registered, be it registered before the call or by a concurrent
\* Register that won, returns ErrEmailAlreadyExists and persists nothing.
RegisterDuplicateEmail ==
    [][(/\ RegisterReturns
        /\ last'.err \notin RegisterFaults \cup {Nil}
        /\ Registered(db', reg[last'.caller].email)) =>
          /\ last'.err = ErrEmailAlreadyExists
          /\ db' = db]_vars

\* Login of some caller returns in this step; last is the lookup it had made
LoginReturns == last'.op = "Login" /\ last.op # "Login"

\* C17 (undifferentiated login failure): Login returns ErrInvalidCredentials
\* when FindByCredentialID finds no active link, when the password does not
\* verify, and when the lookup of the linked user reports ErrNotFound.
LoginUndifferentiated ==
    [][(/\ LoginReturns
        /\ \/ last.err = ErrNotFound
           \/ /\ last.op = "FindByCredentialID"
              /\ last.err = Nil
              /\ ~IsValidPassword(db["auths"][last.id].credential_secret,
                                  reg[last.caller].password)) =>
          last'.err = ErrInvalidCredentials]_vars

\* C18 (re-registration after deletion): when the users that carry the email
\* have all been soft-deleted, and at least one has, Register with that email
\* succeeds unless the connection or the token generation fails.
RecreateDeletedAccount ==
    [][(/\ RegisterReturns
        /\ last'.err \notin RegisterFaults
        /\ \E u \in UserIds : /\ db'["users"][u] # NoRow
                               /\ db'["users"][u].deleted_at # NullTime
                               /\ db'["users"][u].phone_number = reg[last'.caller].email
        /\ \A u \in UserIds : Active(db'["users"][u]) =>
                                  db'["users"][u].phone_number # reg[last'.caller].email) =>
          last'.err = Nil]_vars

\* C19 (Register/Login round trip): while the user and the credential link
\* that a successful Register(name, email, pw) stored are both active,
\* Login(email, pw) returns that user unless the token generation fails, and
\* Login(email, pw2) with another password returns ErrInvalidCredentials.
RegisterLoginRoundTrip ==
    [][(LoginReturns /\ last'.err # ErrGenerateTokenFailed) =>
        \A a \in AuthIds :
            LET link == db["auths"][a]
            IN (/\ Active(link)
                /\ link.credential_id = reg[last'.caller].email
                /\ link.auth_provider_id = EmailPasswordProvider
                /\ Active(db["users"][link.user_id])) =>
                  IF link.credential_secret = Hash(reg[last'.caller].password)
                  THEN last'.err = Nil /\ last'.id = link.user_id
                  ELSE last'.err = ErrInvalidCredentials]_vars

\* the response carries the text t in its message or in one of its details
Mentions(resp, t) ==
    \/ \E k \in DOMAIN resp.body.message : resp.body.message[k] = t
    \/ resp.body.errors.code = t
    \/ \E d \in DOMAIN resp.body.errors \ {"code"} :
          \E k \in DOMAIN resp.body.errors[d] : resp.body.errors[d][k] = t

\* C20 (no storage text in responses): the response to an error carries no
\* text of a storage error; for an AppError it has the error's HTTPStatus,
\* Message, Code and Details and nothing else, and for any other error it is
\* 500, "An internal error occurred", INTERNAL_ERROR.
NoStorageTextInResponse ==
    (last.op = "Respond") =>
        LET err == last.vals[1]
            resp == last.rows[1]
        IN /\ \A t \in StorageErrors : ~Mentions(resp, t)
           /\ IF IsAppError(err)
              THEN /\ resp.status = err.status
                   /\ resp.body.message = err.message
                   /\ resp.body.errors.code = err.code
                   /\ DOMAIN resp.body.errors = {"code"} \cup DOMAIN err.details
                   /\ \A d \in DOMAIN err.details : resp.body.errors[d] = err.details[d]
              ELSE /\ resp.status = StatusInternalServerError
                   /\ resp.body.message = <<"An internal error occurred">>
                   /\ resp.body.errors = [code |-> ErrCodeInternal]

\* C20 witness: the response to an AppError that wraps a unique violation
NoStorageTextInResponseWitness ==
    /\ last.op = "Respond"
    /\ IsAppError(last.vals[1])
    /\ last.vals[1].err = RawError(PgUniqueViolation)
    /\ last.rows[1].status = StatusInternalServerError
    /\ last.rows[1].body.message = <<"Failed to create user">>

\* the outcomes of Register in which GenerateAccessToken has been called
TokensGenerated == {Nil, ErrGenerateTokenFailed}

\* C21 (tokens after commit): when Register generates tokens, the transaction
\* that created the user and the credential link has committed: the caller
\* holds no transaction any more, the WithTransaction it ran returned nil, and
\* both rows are committed; a Register whose WithTransaction returned an error
\* returns that error and generates no token.
TokensAfterCommit ==
    [][RegisterReturns =>
        /\ last'.err \in TokensGenerated =>
              /\ last.op = "WithTransaction" /\ last.err = Nil
              /\ last.h # Ambient /\ txs[last.h].status = "committed"
              /\ ctx[last'.caller] = NoValue /\ stack[last'.caller] = <<>>
              /\ db["users"][last'.id] # NoRow
              /\ \E a \in AuthIds : /\ db["auths"][a] # NoRow
                                    /\ db["auths"][a].user_id = last'.id
        /\ (last.op = "WithTransaction" /\ last.err # Nil) =>
              last'.err = last.err]_vars

\* C21 witness: a Register has returned its tokens for a committed user
TokensAfterCommitWitness ==
    /\ last.op = "Register"
    /\ last.err = Nil
    /\ last.id # 0
    /\ Active(db["users"][last.id])
    /\ \A t \in TxIds : ~OpenTx(t)

\* C22 (cancellation): when WithTransaction returns to a caller whose context
\* was cancelled while fn was running in the transaction it had begun, that
\* transaction is rolled back and the committed rows are the ones from before
\* it; and a cancelled caller that lets go of a context it got from
\* BeginTransaction leaves no transaction open.
CancelRollsBack ==
    [][\A c \in Callers : done[c] =>
          /\ (/\ last'.op = "WithTransaction" /\ last.op = "none"
              /\ last'.caller = c
              /\ stack[c] # <<>>
              /\ stack[c][Len(stack[c])].own) =>
                 /\ db' = db
                 /\ txs'[last'.h].status = "rolledback"
          /\ (/\ stack[c] = <<>>
              /\ ctx[c] # NoValue
              /\ ctx'[c] = NoValue) =>
                 txs'[ctx[c].h].status # "open"]_vars

\* C23 (Create stores version 0): a successful Create of a user, a money flow
\* or a credential link leaves the new row stored with version 0, whatever
\* Version the entity carried.
CreateStoresVersionZero ==
    [][(Returns("Create") /\ last'.err = Nil) =>
          ViewAfter(last'.h, last'.tb, last'.id).version = 0]_vars

\* C24 (updated_at refreshed): a successful Update or Delete of a user, a money
\* flow or a credential link leaves the row's updated_at at the time of the
\* call, which is not before the updated_at the row had and not before its
\* created_at.
UpdatedAtRefreshed ==
    [][((Returns("Update") \/ Returns("Delete")) /\ last'.err = Nil) =>
        LET pre == View(last'.h, last'.tb)[last'.id]
            row == ViewAfter(last'.h, last'.tb, last'.id)
        IN /\ row.updated_at = now
           /\ row.updated_at >= pre.updated_at
           /\ row.updated_at >= row.created_at]_vars

\* C25 (optimistic locking of credential links): a successful Update of a
\* credential link raises the stored version by exactly 1; the Updates made
\* of a link while it is stored at one version do not succeed twice, so the
\* version counts the successful Updates, and the Update that loses returns
\* ErrConflict and changes nothing.
LinkOptimisticLocking ==
    [][(/\ Returns("Update")
        /\ last'.tb = "auths"
        /\ last'.h = Ambient
        /\ last'.err \notin StorageErrors
        /\ Active(db["auths"][last'.id])) =>
          LET pre == db["auths"][last'.id]
              row == db'["auths"][last'.id]
          IN /\ last'.err \in {Nil, ErrConflict}
             /\ (last'.err = Nil) =>
                   /\ row.version = pre.version + 1
                   /\ nUpdates["auths"][last'.id] = pre.version
             /\ (last'.err = ErrConflict) => db' = db]_vars

\* C26 (stable pagination): the consecutive pages of List, read with no write
\* in between, hold the active users only, each of them exactly once, in
\* descending order of created_at, also when rows have equal created_at.
ListPagesStable ==
    (last.op = "ListPages") =>
        LET pages == last.rows
            active == {i \in UserIds : Active(db["users"][i])}
        IN /\ \A k \in DOMAIN pages : pages[k] \in active
           /\ \A i \in active : Cardinality({k \in DOMAIN pages : pages[k] = i}) = 1
           /\ \A j, k \in DOMAIN pages :
                 j < k => db["users"][pages[j]].created_at >= db["users"][pages[k]].created_at

\* C27 (IsInTransaction tells an active transaction): for the context a caller
\* holds, IsInTransaction is true exactly when the context carries a
\* transaction that is open; in particular it is false once CommitTransaction
\* or RollbackTransaction has succeeded on the context and once the
\* WithTransaction that began the transaction has returned.
IsInTransactionIffActive ==
    \A c \in Callers :
        /\ IsInTransaction(ctx[c]) <=>
              (GetTransactionFromContext(ctx[c]) # NoValue /\ OpenTx(ctx[c].h))
        /\ (/\ last.caller = c
            /\ last.op \in {"CommitTransaction", "RollbackTransaction"}
            /\ last.err = Nil) => ~IsInTransaction(ctx[c])
        /\ (/\ last.caller = c
            /\ last.op = "WithTransaction"
            /\ last.h # Ambient
            /\ ~OpenTx(last.h)) => ~IsInTransaction(ctx[c])

\* C28 (validation errors per request): the response to a request whose
\* payload did not bind carries the validation_errors text of that request's
\* own bind error, whatever other requests are handled meanwhile, and the
\* predefined ErrValidation keeps the value the package gave it.
ValidationIsolated ==
    /\ (last.op = "RespondValidation") =>
          /\ last.rows[1].status = StatusBadRequest
          /\ last.rows[1].body.errors.code = ErrCodeValidation
          /\ last.rows[1].body.errors.validation_errors = <<last.vals[1]>>
    /\ errValidation = ErrValidation

\* the columns the Update of a table lists
UpdatedColumns(tb) ==
    IF tb = "users" THEN {"full_name", "phone_number", "image", "version", "updated_at"}
    ELSE {"category", "amount", "currency", "description", "tags", "version", "updated_at"}

\* C29 (frame of Update): a successful Update of a user or a money flow
\* changes, of the single row with the entity's id, only the mutable columns
\* it lists, version and updated_at; the row's created_at and deleted_at (and
\* a money flow's user_id) and every other row of every table stay as they
\* were, whatever the caller's entity carries in those fields.
UpdateFrame ==
    [][(Returns("Update") /\ last'.tb \in Versioned /\ last'.err = Nil) =>
        LET tb == last'.tb
            id == last'.id
            h == last'.h
            pre == View(h, tb)[id]
            row == ViewAfter(h, tb, id)
        IN /\ pre # NoRow /\ row # NoRow
           /\ row.created_at = pre.created_at
           /\ row.deleted_at = pre.deleted_at
           /\ tb = "flows" => row.user_id = pre.user_id
           /\ DOMAIN row = DOMAIN pre
           /\ \A f \in DOMAIN pre : f \notin UpdatedColumns(tb) => row[f] = pre[f]
           /\ row.version = last'.ver
           /\ MutableVals(tb, row) = last'.vals
           /\ \A t \in Tables : \A j \in Ids(t) :
                 <<t, j>> # <<tb, id>> => ViewAfter(h, t, j) = View(h, t)[j]
           /\ h = Ambient => txs' = txs]_vars

\* C29 witness: an Update has succeeded on a row created at an earlier time,
\* so the entity's created_at differed from the stored one, and the row still
\* carries its own creation time
UpdateFrameWitness ==
    /\ last.op = "Update"
    /\ last.err = Nil
    /\ last.tb = "flows"
    /\ db["flows"][last.id] # NoRow
    /\ db["flows"][last.id].created_at < now
    /\ db["flows"][last.id].version = last.ver
    /\ last.ver >= 1

\* C30 (Register all-or-nothing): whenever Register returns an error, whatever
\* step failed, the user row the call created and every credential link of
\* that user are absent from the committed store, and the caller holds no
\* transaction.
RegisterAllOrNothing ==
    [][(RegisterReturns /\ last'.err # Nil) =>
        /\ ctx[last'.caller] = NoValue
        /\ last'.id \in UserIds =>
              /\ db'["users"][last'.id] = NoRow
              /\ \A a \in AuthIds :
                    db'["auths"][a] # NoRow => db'["auths"][a].user_id # last'.id]_vars

====
